---------------------------- MODULE Spec2Model ----------------------------
(***************************************************************************)
(* Model of the USPTO search services.                                     *)
(*                                                                         *)
(*   SimpleUSPTOService    the orchestrated search: browser adapter (when  *)
(*                         enabled), external index, static fallback       *)
(*   SeleniumUSPTOService  the browser adapter with its two target sites   *)
(*                         and its own static result set                   *)
(*                                                                         *)
(* Text values are sequences of chunks: a literal of the source is one     *)
(* chunk, a caller-supplied query is a sequence of one-character chunks,   *)
(* so that toLowerCase, toUpperCase, includes and template interpolation   *)
(* are computed character by character.                                    *)
(***************************************************************************)
EXTENDS Integers, Sequences, FiniteSets, TLC

VARIABLES
    useSelenium,   \* SimpleUSPTOService.useSelenium (process.env.USE_SELENIUM)
    driver,        \* SeleniumUSPTOService.driver: "null" or "open"
    pc,            \* position of the call in flight
    op,            \* operation in flight: "none", "searchPatents", "searchTrademarks", "cleanup"
    query,         \* argument query of the call in flight
    limit,         \* argument limit of the call in flight
    ret,           \* completion of the call: [kind |-> "none" | "return" | "throw", value |-> list]
    trace,         \* adapters invoked by the call in flight, in invocation order
    outcome,       \* per adapter and browser site: "untried", "records", "empty", "error"
    servedBy,      \* which code path produced the returned list
    genCalls,      \* number of direct calls of the static generators so far
    genLast,       \* the last generator call: [fn, query, out]
    genProbe,      \* a remembered earlier generator call: [fn, query, out]
    genBetween,    \* another generator call happened since the remembered one
    reqPc,         \* concurrent requests: position of each request's browser search
    reqSession,    \* concurrent requests: the session each request's pending command runs on, 0 for none
    held,          \* the session SeleniumUSPTOService.driver refers to, 0 for null
    live,          \* the sessions built and not quit
    idxCalls,      \* number of direct calls of the external-index adapter so far
    idxLast,       \* the last direct call: [query, limit, resp, out, gets]
    idxProbe,      \* a remembered earlier direct call
    idxBetween,    \* another direct call happened since the remembered one
    dedup,         \* the last deduplication: [kind, input, out]
    classify,      \* the last classification: [title, content, type, strategy]
    cmPc,          \* crawlMultiple: "idle", "batch" (awaiting Promise.all), "pause" (awaiting delay), "done", "thrown"
    cmUrls,        \* crawlMultiple: urls.length
    cmI,           \* crawlMultiple: the loop variable i
    cmCrawl,       \* crawlMultiple: per url, "pending", "inflight", "result" or "rejected"
    cmDelays,      \* crawlMultiple: delays started so far
    detail,        \* USPTOCrawler.fetchPatentDetails / fetchTrademarkDetails: the call in flight
    isInitialized, \* Crawl4AIService.isInitialized
    crawlCall,     \* Crawl4AIService.crawl: the call in flight or last ended
    smart,         \* Crawl4AIService.smartCrawl: the call in flight or last ended
    site,          \* SeleniumUSPTOService.searchPatents: the call in flight, step by step
    conc,          \* Crawl4AIService.crawl: calls in flight at the same time
    tool,          \* PatentSearchTool.execute / TrademarkSearchTool.execute: the call in flight
    stream         \* USPTOBackendServer search:stream requests on a socket: position and events emitted

vars == <<useSelenium, driver, pc, op, query, limit, ret, trace, outcome, servedBy,
          genCalls, genLast, genProbe, genBetween,
          reqPc, reqSession, held, live,
          idxCalls, idxLast, idxProbe, idxBetween,
          dedup, classify, cmPc, cmUrls, cmI, cmCrawl, cmDelays, detail, isInitialized, crawlCall, smart, site, conc, tool, stream>>

svcVars == <<useSelenium, driver, pc, op, query, limit, ret, trace, outcome, servedBy>>
genVars == <<genCalls, genLast, genProbe, genBetween>>
concVars == <<reqPc, reqSession, held, live>>
idxVars == <<idxCalls, idxLast, idxProbe, idxBetween>>
cmVars == <<cmPc, cmUrls, cmI, cmCrawl, cmDelays>>
callVars == <<useSelenium, pc, op, query, limit, ret, trace, outcome, servedBy>>
crawlVars == <<isInitialized, crawlCall, smart>>
extVars == <<dedup, classify, cmVars, detail, isInitialized, crawlCall, smart, site, conc, tool, stream>>

----------------------------------------------------------------------------
(* Bounds of the model *)

MaxLimit == 2      \* limits range over -1 .. MaxLimit
MaxResults == 2    \* result elements on a page, clusters in an envelope
MaxGenCalls == 3   \* direct generator calls in one behaviour
MaxRequests == 2   \* search requests in flight on one server
MaxConc == 3       \* crawl calls in flight at once on one Crawl4AIService
MaxStreams == 3    \* search:stream requests on one socket
MaxIdxCalls == 3   \* direct calls of the external-index adapter in one behaviour

----------------------------------------------------------------------------
(* Text *)

\* a literal of the source text, as one chunk
Lit(s) == <<s>>

\* a missing property (JavaScript undefined)
Undefined == <<"<undefined>">>

\* JavaScript truthiness of an optional text: neither undefined nor ''
Truthy(t) == t # Undefined /\ t # <<>>

\* a || b on optional texts
OrElse(a, b) == IF Truthy(a) THEN a ELSE b

Lowers == <<"a","b","c","d","e","f","g","h","i","j","k","l","m",
            "n","o","p","q","r","s","t","u","v","w","x","y","z">>
Uppers == <<"A","B","C","D","E","F","G","H","I","J","K","L","M",
            "N","O","P","Q","R","S","T","U","V","W","X","Y","Z">>

toLowerChar(c) ==
    IF \E i \in DOMAIN Uppers : Uppers[i] = c
    THEN Lowers[CHOOSE i \in DOMAIN Uppers : Uppers[i] = c]
    ELSE c

toUpperChar(c) ==
    IF \E i \in DOMAIN Lowers : Lowers[i] = c
    THEN Uppers[CHOOSE i \in DOMAIN Lowers : Lowers[i] = c]
    ELSE c

\* String.prototype.toLowerCase / toUpperCase
toLowerCase(s) == [i \in DOMAIN s |-> toLowerChar(s[i])]
toUpperCase(s) == [i \in DOMAIN s |-> toUpperChar(s[i])]

\* a plausible slip: receiver and argument of includes exchanged
includesSwapped(hay, needle) ==
    \E i \in 1..(Len(needle) - Len(hay) + 1) :
        SubSeq(needle, i, i + Len(hay) - 1) = hay

\* String.prototype.includes
includes(hay, needle) ==
    \E i \in 1..(Len(hay) - Len(needle) + 1) :
        SubSeq(hay, i, i + Len(needle) - 1) = needle

\* a plausible slip: the guard compares with '' and does not trim
IsBlankNoTrim(s) == s = <<>>

\* String.prototype.trim() === '' for the characters the queries use
IsBlank(s) == \A i \in DOMAIN s : s[i] = " "

\* Array.prototype.slice(0, n), n any integer
Slice0(list, n) ==
    LET end == IF n < 0 THEN (IF Len(list) + n < 0 THEN 0 ELSE Len(list) + n)
               ELSE (IF n > Len(list) THEN Len(list) ELSE n)
    IN  SubSeq(list, 1, end)

Min(a, b) == IF a < b THEN a ELSE b

----------------------------------------------------------------------------
(* Queries and limits a caller supplies *)

QBlockchain == <<"b","l","o","c","k","c","h","a","i","n">>
QBlockchainCap == <<"B","l","o","c","k","c","h","a","i","n">>
QNonsense == <<"x","y","z","1","2","3","n","o","n","s","e","n","s","e">>
QCrypto == <<"c","r","y","p","t","o">>
QQuantum == <<"Q","u","a","n","t","u","m">>
QAi == <<"A","I">>
QSolar == <<"s","o","l","a","r">>
QEmpty == <<>>
QSpace == <<" ">>

Queries == {QBlockchain, QBlockchainCap, QNonsense, QCrypto, QQuantum, QAi, QSolar,
            QEmpty, QSpace}

Limits == (-1)..MaxLimit

NeedleAI == <<"a","i">>
NeedleArtificial == <<"a","r","t","i","f","i","c","i","a","l"," ",
                      "i","n","t","e","l","l","i","g","e","n","c","e">>
NeedleBlockchain == <<"b","l","o","c","k","c","h","a","i","n">>
NeedleCrypto == <<"c","r","y","p","t","o">>
NeedleQuantum == <<"q","u","a","n","t","u","m">>

----------------------------------------------------------------------------
(* Records *)

\* PatentSearchResult: a property that was never set is Undefined
Patent(pn, title, abstract, inventors, applicant, filingDate, grantDate, url) ==
    [patentNumber |-> pn, title |-> title, abstract |-> abstract,
     inventors |-> inventors, applicant |-> applicant,
     filingDate |-> filingDate, grantDate |-> grantDate, url |-> url]

\* TrademarkSearchResult
Trademark(sn, rn, mark, owner, filingDate, status, url) ==
    [serialNumber |-> sn, registrationNumber |-> rn, mark |-> mark, owner |-> owner,
     filingDate |-> filingDate, status |-> status, url |-> url]

\* the identifying key of a patent record: patentNumber, else applicationNumber
\* (PatentSearchResult declares no applicationNumber, so that one is undefined)
PatentKey(r) == OrElse(r.patentNumber, Undefined)

\* the identifying key of a trademark record: serialNumber, else registrationNumber
TrademarkKey(r) == OrElse(r.serialNumber, r.registrationNumber)

----------------------------------------------------------------------------
(* SimpleUSPTOService: the static data sets *)

AIPatentResults ==
    << Patent(Lit("US11,521,063"),
              Lit("Artificial Intelligence System for Predictive Analysis"),
              Lit("A system and method for using artificial intelligence and machine learning algorithms to perform predictive analysis on large datasets with improved accuracy and reduced computational requirements."),
              <<Lit("Sarah Chen"), Lit("Michael Rodriguez")>>,
              Lit("DeepMind Technologies Limited"),
              Lit("2021-03-15"), Lit("2022-12-06"),
              Lit("https://patents.google.com/patent/US11521063")),
       Patent(Lit("US11,487,936"),
              Lit("Natural Language Processing Using Transformer Architecture"),
              Lit("Methods and systems for natural language understanding using transformer-based neural networks with attention mechanisms for improved context understanding."),
              <<Lit("Emily Zhang"), Lit("David Kumar")>>,
              Lit("OpenAI, Inc."),
              Lit("2020-09-22"), Lit("2022-11-01"),
              Lit("https://patents.google.com/patent/US11487936")),
       Patent(Lit("US11,423,678"),
              Lit("Computer Vision System for Object Detection"),
              Lit("An improved computer vision system utilizing convolutional neural networks for real-time object detection and classification in video streams."),
              <<Lit("James Park"), Lit("Lisa Thompson")>>,
              Lit("Google LLC"),
              Lit("2021-01-10"), Lit("2022-08-23"),
              Lit("https://patents.google.com/patent/US11423678")) >>

BlockchainPatentResults ==
    << Patent(Lit("US11,456,789"),
              Lit("Blockchain-Based Smart Contract System"),
              Lit("A distributed ledger system implementing smart contracts with improved gas efficiency and enhanced security features."),
              <<Lit("Satoshi Yamamoto"), Lit("Wei Lin")>>,
              Lit("Ethereum Foundation"),
              Lit("2020-11-30"), Lit("2022-09-15"),
              Lit("https://patents.google.com/patent/US11456789")),
       Patent(Lit("US11,398,234"),
              Lit("Cryptocurrency Wallet with Multi-Signature Security"),
              Lit("A secure cryptocurrency wallet system implementing multi-signature authentication and cold storage capabilities."),
              <<Lit("Marcus Johnson"), Lit("Anna Kowalski")>>,
              Lit("Coinbase Global, Inc."),
              Lit("2021-02-28"), Lit("2022-07-26"),
              Lit("https://patents.google.com/patent/US11398234")) >>

QuantumPatentResults ==
    << Patent(Lit("US11,567,890"),
              Lit("Quantum Computing Error Correction System"),
              Lit("Methods for quantum error correction using topological codes to maintain quantum coherence in superconducting qubit systems."),
              <<Lit("Robert Quantum"), Lit("Marie Curie")>>,
              Lit("IBM Corporation"),
              Lit("2020-07-15"), Lit("2023-01-10"),
              Lit("https://patents.google.com/patent/US11567890")),
       Patent(Lit("US11,445,123"),
              Lit("Quantum Cryptography Communication System"),
              Lit("A quantum key distribution system using entangled photons for secure communication channels."),
              <<Lit("Alice Quantum"), Lit("Bob Crypto")>>,
              Lit("Microsoft Technology Licensing, LLC"),
              Lit("2021-04-20"), Lit("2022-09-13"),
              Lit("https://patents.google.com/patent/US11445123")) >>

\* the else branch: the query is interpolated into titles and abstracts
GenericPatentResults(q) ==
    << Patent(Lit("US11,234,567"),
              Lit("System and Method for ") \o q,
              Lit("An innovative approach to ") \o q \o Lit(" that provides improved efficiency, scalability, and performance through novel algorithmic techniques."),
              <<Lit("John Smith"), Lit("Jane Doe")>>,
              Lit("Tech Innovations Inc."),
              Lit("2021-06-15"), Lit("2023-03-20"),
              Lit("https://patents.google.com/patent/US11234567")),
       Patent(Lit("US11,345,678"),
              Lit("Advanced ") \o q \o Lit(" Processing System"),
              Lit("A comprehensive system for processing and analyzing ") \o q \o Lit(" using state-of-the-art techniques and methodologies."),
              <<Lit("Alice Johnson"), Lit("Bob Wilson")>>,
              Lit("Innovation Labs LLC"),
              Lit("2020-12-01"), Lit("2022-11-15"),
              Lit("https://patents.google.com/patent/US11345678")),
       Patent(Lit("US11,456,789"),
              q \o Lit(" Optimization Framework"),
              Lit("A framework for optimizing ") \o q \o Lit(" operations with reduced computational complexity and improved resource utilization."),
              <<Lit("Charlie Brown"), Lit("Diana Prince")>>,
              Lit("Research Corporation"),
              Lit("2021-08-30"), Lit("2023-02-10"),
              Lit("https://patents.google.com/patent/US11456789")) >>

Reverse(list) == [i \in 1..Len(list) |-> list[Len(list) + 1 - i]]

\* a plausible slip: the data sets are shared arrays and a call reverses the one
\* it returns in place, so the order alternates from call to call
getMockPatentResultsShared(q) ==
    LET queryLower == toLowerCase(q)
        base == IF includes(queryLower, NeedleArtificial) \/ includes(queryLower, NeedleAI)
                THEN AIPatentResults
                ELSE IF includes(queryLower, NeedleBlockchain)
                        \/ includes(queryLower, NeedleCrypto)
                THEN BlockchainPatentResults
                ELSE IF includes(queryLower, NeedleQuantum)
                THEN QuantumPatentResults
                ELSE GenericPatentResults(q)
    IN  IF genCalls % 2 = 1 THEN Reverse(base) ELSE base

\* SimpleUSPTOService.getMockPatentResults
getMockPatentResults(q) ==
    LET queryLower == toLowerCase(q) IN
    IF includes(queryLower, NeedleArtificial) \/ includes(queryLower, NeedleAI)
    THEN AIPatentResults
    ELSE IF includes(queryLower, NeedleBlockchain) \/ includes(queryLower, NeedleCrypto)
    THEN BlockchainPatentResults
    ELSE IF includes(queryLower, NeedleQuantum)
    THEN QuantumPatentResults
    ELSE GenericPatentResults(q)

\* SimpleUSPTOService.getMockTrademarkResults
getMockTrademarkResults(q) ==
    << Trademark(Lit("88/123,456"), Lit("5,123,456"), toUpperCase(q),
                 Lit("Example Corporation"), Lit("2023-02-10"), Lit("REGISTERED"),
                 Lit("https://tsdr.uspto.gov/#caseNumber=88123456")),
       Trademark(Lit("88/234,567"), Undefined, toUpperCase(q) \o Lit(" PLUS"),
                 Lit("Innovation Brands LLC"), Lit("2023-04-15"), Lit("PENDING"),
                 Lit("https://tsdr.uspto.gov/#caseNumber=88234567")) >>

----------------------------------------------------------------------------
(* SeleniumUSPTOService: its own static result set *)

\* SeleniumUSPTOService.getMockResults
getMockResults(q, n) ==
    Slice0(<< Patent(Lit("US11,234,567"),
                     Lit("System and Method for ") \o q,
                     Lit("An innovative approach to ") \o q \o Lit(" using advanced techniques."),
                     <<Lit("John Smith"), Lit("Jane Doe")>>,
                     Lit("Tech Corp"),
                     Lit("2023-01-15"), Lit("2024-06-20"),
                     Lit("https://patents.google.com/patent/US11234567")),
              Patent(Lit("US11,345,678"),
                     q \o Lit(" Processing Framework"),
                     Lit("A comprehensive framework for processing ") \o q \o Lit(" efficiently."),
                     <<Lit("Alice Johnson"), Lit("Bob Wilson")>>,
                     Lit("Innovation Inc"),
                     Lit("2023-03-20"), Lit("2024-08-15"),
                     Lit("https://patents.google.com/patent/US11345678")) >>, n)

----------------------------------------------------------------------------
(* SeleniumUSPTOService: one target site *)

\* what getText() of the number and title elements of a result element gives;
\* Undefined when findElement throws (caught by the field's own try/catch)
PageNumbers == {Undefined, <<>>, Lit("US1"), Lit("US2")}
PageTitles == {Undefined, Lit("T1")}
Elements == [number : PageNumbers, title : PageTitles]

SeqsUpTo(S, n) == UNION {[1..k -> S] : k \in 0..n}

\* what a target site does during one site search:
\*   navError  driver.get, the wait for the search input or typing throws
\*   timeout   the wait for the results container times out
\*   elements  the results container is found; findElements gives `elements`
Pages ==
    {[kind |-> k, elements |-> <<>>] : k \in {"navError", "timeout"}}
    \cup {[kind |-> "elements", elements |-> e] : e \in SeqsUpTo(Elements, MaxResults)}

\* patentData of searchPatentsPublic for one result element (abstract and date
\* elements taken as not found; findElements for the inventors gives [])
ScrapedPublic(el) ==
    Patent(el.number, el.title, Undefined, <<>>, Undefined, Undefined, Undefined, Undefined)

\* patentData of searchGooglePatents for one result element
ScrapedGoogle(el) ==
    Patent(el.number, el.title, Undefined, Undefined, Undefined, Undefined, Undefined, Undefined)

\* a plausible slip: && in place of ||
KeptBoth(r) == Truthy(r.patentNumber) /\ Truthy(r.title)

\* if (patentData.patentNumber || patentData.title) results.push(patentData)
Kept(r) == Truthy(r.patentNumber) \/ Truthy(r.title)

\* for (i = 0; i < Math.min(resultElements.length, limit); i++) ...
Examined(elements, n) ==
    LET m == Min(Len(elements), n) IN SubSeq(elements, 1, IF m < 0 THEN 0 ELSE m)

\* the list searchPatentsPublic returns once a driver exists
searchPatentsPublic(page, n) ==
    IF page.kind # "elements" THEN <<>>
    ELSE LET ex == Examined(page.elements, n)
         IN  SelectSeq([i \in 1..Len(ex) |-> ScrapedPublic(ex[i])], Kept)

\* the list searchGooglePatents returns once a driver exists
searchGooglePatents(page, n) ==
    IF page.kind # "elements" THEN <<>>
    ELSE LET ex == Examined(page.elements, n)
         IN  SelectSeq([i \in 1..Len(ex) |-> ScrapedGoogle(ex[i])], Kept)

\* the outcome of a site search as the histories record it
SiteOutcome(page, results) ==
    IF page.kind # "elements" THEN page.kind
    ELSE IF Len(results) > 0 THEN "records" ELSE "norecords"

----------------------------------------------------------------------------
(* SimpleUSPTOService: the external index *)

\* one entry of response.data.results.cluster: null, or an object whose
\* result.patent and result.title.text may be missing
NullCluster == [shape |-> "null", publication_number |-> Undefined,
                patent_number |-> Undefined, title |-> Undefined]

ClusterEntries ==
    {NullCluster} \cup
    {[shape |-> "object", publication_number |-> pn[1], patent_number |-> pn[2],
      title |-> t] :
        pn \in {<<Undefined, Undefined>>, <<Lit("US1"), Undefined>>,
                <<Lit("US2"), Undefined>>, <<Undefined, Lit("US9")>>,
                <<Lit("US1"), Lit("US9")>>},
        t \in {Undefined, Lit("T1")}}

\* what the HTTP GET gives:
\*   error      the request rejects (transport error, non-2xx status)
\*   nodata, noresults, nocluster   the envelope lacks that property
\*   notlist    results.cluster is an object that is no array
\*   clusters   results.cluster is the array `cluster`
Responses ==
    {[kind |-> k, cluster |-> <<>>] :
        k \in {"error", "nodata", "noresults", "nocluster", "notlist"}}
    \cup {[kind |-> "clusters", cluster |-> c] : c \in SeqsUpTo(ClusterEntries, MaxResults)}

\* a plausible slip: the title default is numbered from a counter the service
\* keeps across calls
GoogleRecordNumbered(c) ==
    LET patentNumber == OrElse(c.publication_number, OrElse(c.patent_number, Lit("N/A")))
    IN  Patent(patentNumber,
               OrElse(c.title, <<"Untitled", idxCalls>>),
               Lit("No abstract available"),
               <<Lit("Not listed")>>,
               Lit("Not Available"),
               Lit("N/A"), Lit("N/A"),
               Lit("https://patents.google.com/patent/") \o patentNumber)

\* the record built by the map callback for one cluster
GoogleRecord(c) ==
    LET patentNumber == OrElse(c.publication_number, OrElse(c.patent_number, Lit("N/A")))
    IN  Patent(patentNumber,
               OrElse(c.title, Lit("Untitled")),
               Lit("No abstract available"),
               <<Lit("Not listed")>>,
               Lit("Not Available"),
               Lit("N/A"), Lit("N/A"),
               Lit("https://patents.google.com/patent/") \o patentNumber)

Returned(list) == [kind |-> "return", value |-> list]
Thrown == [kind |-> "throw", value |-> <<>>]
NoRet == [kind |-> "none", value |-> <<>>]

\* the body of the try block of searchPatentsViaGoogleAPI
GoogleTry(q, n, resp) ==
    IF q = <<>> \/ IsBlank(q) THEN Returned(<<>>)
    ELSE IF resp.kind = "error" THEN Thrown
    ELSE IF resp.kind \in {"nodata", "noresults", "nocluster"} THEN Returned(<<>>)
    ELSE IF resp.kind = "notlist" THEN Thrown
    ELSE LET sl == Slice0(resp.cluster, n) IN
         IF \E i \in 1..Len(sl) : sl[i].shape = "null" THEN Thrown
         ELSE Returned([i \in 1..Len(sl) |-> GoogleRecord(sl[i])])

\* a plausible slip: the catch block rethrows instead of returning []
searchPatentsViaGoogleAPIRethrow(q, n, resp) == GoogleTry(q, n, resp)

\* SimpleUSPTOService.searchPatentsViaGoogleAPI: try { ... } catch { return [] }
searchPatentsViaGoogleAPI(q, n, resp) ==
    LET r == GoogleTry(q, n, resp) IN
    IF r.kind = "throw" THEN Returned(<<>>) ELSE r

----------------------------------------------------------------------------
(* State *)

NoOutcome == [browser |-> "untried", sitePublic |-> "untried",
              siteGoogle |-> "untried", index |-> "untried"]

NoGen == [fn |-> "none", query |-> <<>>, out |-> <<>>]

\* the requests the server may have in flight at once
Reqs == 1..MaxRequests

NoClassify == [title |-> <<>>, content |-> <<>>, type |-> "none", strategy |-> "none"]

\* a crawl result: returned (with success, error, title, content) or thrown
NoResult == [kind |-> "none", success |-> FALSE, error |-> "",
             title |-> <<>>, content |-> <<>>]

NoCrawl == [pc |-> "idle", url |-> "", strategy |-> "", procs |-> <<>>,
            calls |-> 0, res |-> NoResult]

NoSmart == [pc |-> "idle", url |-> "", crawls |-> <<>>, initialCrawl |-> NoResult,
            res |-> NoResult, contentType |-> "none", twoPassExtraction |-> FALSE]

NoSite == [pc |-> "idle", target |-> "none", query |-> <<>>, limit |-> 0,
           typed |-> <<>>, log |-> <<>>, elements |-> <<>>,
           ends |-> [t \in {"public", "google"} |-> "none"],
           lists |-> [t \in {"public", "google"} |-> <<>>],
           ret |-> NoRet]

NoConc == [pc |-> [c \in 1..MaxConc |-> "idle"], inits |-> 0]

\* the arguments of a tool call: an object with the fields read here, or
\* nothing at all (given = FALSE)
NoArgs == [given |-> FALSE, query |-> Undefined, owner |-> Undefined]

NoToolRet == [thrown |-> FALSE, success |-> FALSE, results |-> <<>>, count |-> 0,
              query |-> NoArgs]

NoTool == [pc |-> "idle", kind |-> "none", args |-> NoArgs, search |-> "none",
           ret |-> NoToolRet]

NoStream == [pc |-> [r \in 1..MaxStreams |-> "idle"],
             events |-> [r \in 1..MaxStreams |-> <<>>]]

NoDetail == [pc |-> "idle", kind |-> "none", items |-> <<>>, i |-> 0,
             log |-> <<>>, detailed |-> <<>>]

NoDedup == [kind |-> "none", input |-> <<>>, out |-> <<>>]

NoIdx == [query |-> <<>>, limit |-> 0, resp |-> [kind |-> "none", cluster |-> <<>>],
          out |-> NoRet, gets |-> 0]

Init ==
    /\ useSelenium \in BOOLEAN
    /\ driver = "null"
    /\ pc = "idle"
    /\ op = "none"
    /\ query = <<>>
    /\ limit = 0
    /\ ret = NoRet
    /\ trace = <<>>
    /\ outcome = NoOutcome
    /\ servedBy = "none"
    /\ genCalls = 0
    /\ genLast = NoGen
    /\ genProbe = NoGen
    /\ genBetween = FALSE
    /\ reqPc = [r \in Reqs |-> "idle"]
    /\ reqSession = [r \in Reqs |-> 0]
    /\ held = 0
    /\ live = {}
    /\ idxCalls = 0
    /\ idxLast = NoIdx
    /\ idxProbe = NoIdx
    /\ idxBetween = FALSE
    /\ dedup = NoDedup
    /\ classify = NoClassify
    /\ cmPc = "idle"
    /\ cmUrls = 0
    /\ cmI = 0
    /\ cmCrawl = <<>>
    /\ cmDelays = 0
    /\ detail = NoDetail
    /\ isInitialized = FALSE
    /\ crawlCall = NoCrawl
    /\ smart = NoSmart
    /\ site = NoSite
    /\ conc = NoConc
    /\ tool = NoTool
    /\ stream = NoStream

----------------------------------------------------------------------------
(* SimpleUSPTOService.searchPatents *)

\* entry: the browser adapter is invoked when enabled, else the external index
CallSearchPatents(q, n) ==
    /\ pc = "idle"
    /\ op' = "searchPatents"
    /\ query' = q
    /\ limit' = n
    /\ ret' = NoRet
    /\ outcome' = NoOutcome
    /\ servedBy' = "none"
    /\ IF useSelenium
       THEN pc' = "selenium_public" /\ trace' = <<"browser">>
       ELSE pc' = "google_api" /\ trace' = <<"index">>
    /\ UNCHANGED <<useSelenium, driver, genVars, concVars, idxVars, extVars>>

\* the catch block of searchPatents around the browser adapter: log, go on
\* with the external index
SeleniumFailed ==
    /\ pc' = "google_api"
    /\ trace' = Append(trace, "index")
    /\ outcome' = [outcome EXCEPT !.browser = "error"]
    /\ UNCHANGED <<ret, servedBy>>

\* a plausible slip: the return inside the length check is missing, so the
\* external index is queried although the browser adapter gave records
SeleniumReturnedNoReturn(results, source, out) ==
    /\ pc' = "google_api"
    /\ trace' = Append(trace, "index")
    /\ outcome' = [out EXCEPT !.browser = IF Len(results) > 0 THEN "records" ELSE "empty"]
    /\ UNCHANGED <<ret, servedBy>>

\* seleniumResults.length > 0 ? return them : go on with the external index
SeleniumReturned(results, source, out) ==
    IF Len(results) > 0
    THEN /\ pc' = "done"
         /\ ret' = Returned(results)
         /\ servedBy' = source
         /\ trace' = trace
         /\ outcome' = [out EXCEPT !.browser = "records"]
    ELSE /\ pc' = "google_api"
         /\ trace' = Append(trace, "index")
         /\ outcome' = [out EXCEPT !.browser = "empty"]
         /\ UNCHANGED <<ret, servedBy>>

\* SeleniumUSPTOService.searchPatents, first await: searchPatentsPublic.
\* initialize() runs outside the try block, so its failure leaves the adapter
\* and lands in the catch block of the orchestrator.
SeleniumPublicSearch(initOk, page) ==
    /\ pc = "selenium_public"
    /\ IF driver = "null" /\ ~initOk
       THEN /\ SeleniumFailed
            /\ UNCHANGED driver
       ELSE LET results == searchPatentsPublic(page, limit)
                out == [outcome EXCEPT !.sitePublic = SiteOutcome(page, results)]
            IN  /\ driver' = "open"
                /\ IF Len(results) = 0
                   THEN /\ pc' = "selenium_google"
                        /\ outcome' = out
                        /\ UNCHANGED <<ret, servedBy, trace>>
                   ELSE SeleniumReturned(results, "selenium_public", out)
    /\ UNCHANGED <<useSelenium, op, query, limit, genVars, concVars, idxVars, extVars>>

\* SeleniumUSPTOService.searchPatents, second await: searchGooglePatents, then
\* getMockResults when that gave nothing either
SeleniumGoogleSearch(initOk, page) ==
    /\ pc = "selenium_google"
    /\ IF driver = "null" /\ ~initOk
       THEN /\ SeleniumFailed
            /\ UNCHANGED driver
       ELSE LET results == searchGooglePatents(page, limit)
                out == [outcome EXCEPT !.siteGoogle = SiteOutcome(page, results)]
            IN  /\ driver' = "open"
                /\ IF Len(results) = 0
                   THEN SeleniumReturned(getMockResults(query, limit), "selenium_mock", out)
                   ELSE SeleniumReturned(results, "selenium_google", out)
    /\ UNCHANGED <<useSelenium, op, query, limit, genVars, concVars, idxVars, extVars>>

\* the await of searchPatentsViaGoogleAPI and what follows it
GoogleAPISearch(resp) ==
    /\ pc = "google_api"
    /\ LET r == searchPatentsViaGoogleAPI(query, limit, resp) IN
       IF r.kind = "throw"
       THEN /\ ret' = Thrown
            /\ servedBy' = "none"
            /\ outcome' = [outcome EXCEPT !.index = "error"]
       ELSE IF Len(r.value) > 0
       THEN /\ ret' = Returned(r.value)
            /\ servedBy' = "google_api"
            /\ outcome' = [outcome EXCEPT !.index = "records"]
       ELSE /\ ret' = Returned(getMockPatentResults(query))
            /\ servedBy' = "mock"
            /\ outcome' = [outcome EXCEPT !.index =
                              IF GoogleTry(query, limit, resp).kind = "throw"
                              THEN "error" ELSE "empty"]
    /\ pc' = "done"
    /\ UNCHANGED <<useSelenium, driver, op, query, limit, trace, genVars, concVars, idxVars, extVars>>

\* SimpleUSPTOService.searchTrademarks
SearchTrademarks(q, n) ==
    /\ pc = "idle"
    /\ op' = "searchTrademarks"
    /\ query' = q
    /\ limit' = n
    /\ ret' = Returned(getMockTrademarkResults(q))
    /\ servedBy' = "mock"
    /\ trace' = <<>>
    /\ outcome' = NoOutcome
    /\ pc' = "done"
    /\ UNCHANGED <<useSelenium, driver, genVars, concVars, idxVars, extVars>>

\* SimpleUSPTOService.cleanup and SeleniumUSPTOService.cleanup: without a
\* driver nothing is done; driver.quit() may throw, and then the catch block
\* logs and the driver field keeps its value
Cleanup(quitOk) ==
    /\ pc = "idle"
    /\ useSelenium
    /\ op' = "cleanup"
    /\ pc' = "done"
    /\ driver' = IF driver = "open" /\ quitOk THEN "null" ELSE driver
    /\ UNCHANGED <<useSelenium, query, limit, ret, trace, outcome, servedBy, genVars, concVars, idxVars, extVars>>

\* the caller takes the completion; the service is ready for the next call
Complete ==
    /\ pc = "done"
    /\ pc' = "idle"
    /\ op' = "none"
    /\ query' = <<>>
    /\ limit' = 0
    /\ ret' = NoRet
    /\ trace' = <<>>
    /\ outcome' = NoOutcome
    /\ servedBy' = "none"
    /\ UNCHANGED <<useSelenium, driver, genVars, concVars, idxVars, extVars>>

Next ==
    \/ \E q \in Queries, n \in Limits : CallSearchPatents(q, n)
    \/ \E initOk \in BOOLEAN, page \in Pages : SeleniumPublicSearch(initOk, page)
    \/ \E initOk \in BOOLEAN, page \in Pages : SeleniumGoogleSearch(initOk, page)
    \/ \E resp \in Responses : GoogleAPISearch(resp)
    \/ \E q \in Queries, n \in Limits : SearchTrademarks(q, n)
    \/ \E quitOk \in BOOLEAN : Cleanup(quitOk)
    \/ Complete

Spec == Init /\ [][Next]_vars

----------------------------------------------------------------------------
(* The static generators called directly *)

\* what a direct call leaves in the histories
GenHistory(fn, q, out) ==
    /\ genCalls' = genCalls + 1
    /\ genLast' = [fn |-> fn, query |-> q, out |-> out]
    /\ \/ genProbe = NoGen /\ genProbe' = [fn |-> fn, query |-> q, out |-> out]
                           /\ genBetween' = FALSE
       \/ genProbe' = genProbe
          /\ genBetween' = (genBetween \/ (genProbe # NoGen /\
                               (genProbe.fn # fn \/ genProbe.query # q)))

\* a call of getMockPatentResults: it reads its argument and no field
GenPatents(q) ==
    /\ genCalls < MaxGenCalls
    /\ GenHistory("getMockPatentResults", q, getMockPatentResults(q))
    /\ UNCHANGED <<svcVars, concVars, idxVars, extVars>>

\* a call of getMockTrademarkResults: it reads its argument and no field
GenTrademarks(q) ==
    /\ genCalls < MaxGenCalls
    /\ GenHistory("getMockTrademarkResults", q, getMockTrademarkResults(q))
    /\ UNCHANGED <<svcVars, concVars, idxVars, extVars>>

GenNext ==
    \/ \E q \in Queries : GenPatents(q)
    \/ \E q \in Queries : GenTrademarks(q)

FallbackSpec == Init /\ [][GenNext]_vars

----------------------------------------------------------------------------
(* Properties of the orchestrated search *)

\* s contains t as a contiguous run of chunks
TextContains(s, t) ==
    \E i \in 1..(Len(s) - Len(t) + 1) : SubSeq(s, i, i + Len(t) - 1) = t

IsPrefix(s, t) == Len(s) <= Len(t) /\ SubSeq(t, 1, Len(s)) = s

PatentDone == pc = "done" /\ op = "searchPatents"

\* the code paths that produce static data
Synthetic == {"mock", "selenium_mock"}

\* the adapters the priority chain names, and the ones this service holds
NamedChain == <<"browser", "index", "delegated">>
EnabledChain == IF useSelenium THEN <<"browser", "index">> ELSE <<"index">>

AdapterOutcome(a) ==
    IF a = "browser" THEN outcome.browser
    ELSE IF a = "index" THEN outcome.index
    ELSE "untried"

\* every adapter invoked before the last one of the trace gave nothing, and an
\* adapter that gave records is the last one invoked and its list is returned
FallThroughOnly ==
    /\ \A i \in 1..Len(trace) : \A j \in 1..(i - 1) :
          AdapterOutcome(trace[j]) \in {"empty", "error"}
    /\ \A i \in 1..Len(trace) :
          AdapterOutcome(trace[i]) = "records" =>
             /\ i = Len(trace)
             /\ pc = "done"
             /\ ret.kind = "return"
             /\ Len(ret.value) > 0
             /\ servedBy \in (IF trace[i] = "browser"
                              THEN {"selenium_public", "selenium_google", "selenium_mock"}
                              ELSE {"google_api"})

\* C1: searchPatents never raises to its caller: whatever the browser adapter
\* and the external index do (records, nothing, an error), the call in flight
\* can always take its next step, is never completed by a throw, and once done
\* has returned a list.
C1_NeverRaises ==
    op = "searchPatents" =>
       /\ ret.kind # "throw"
       /\ pc # "done" => ENABLED Next
       /\ pc = "done" => ret.kind = "return" /\ DOMAIN ret.value = 1..Len(ret.value)

\* C1 witness: the browser adapter threw (initialize failed), the request to
\* the external index failed, and the call returned a list all the same
C1_Witness ==
    /\ PatentDone
    /\ outcome.browser = "error"
    /\ outcome.index = "error"
    /\ ret.kind = "return"

C3_FallbackOnlyWhenExhausted ==
    (PatentDone /\ limit >= 1) =>
       (servedBy \in Synthetic <=>
           \A i \in 1..Len(EnabledChain) :
               AdapterOutcome(EnabledChain[i]) \in {"empty", "error"})

\* C4: when the enabled browser adapter times out waiting for the results
\* container on both of its sites, it yields no records and the external index
\* is invoked, with no error reaching the caller (checked for limits >= 1).
C4_TimeoutFallsThrough ==
    (PatentDone /\ limit >= 1
        /\ outcome.sitePublic = "timeout" /\ outcome.siteGoogle = "timeout") =>
       /\ outcome.browser = "empty"
       /\ outcome.index # "untried"
       /\ ret.kind = "return"

\* C5: a search with limit L >= 1 returns at most L records, whichever source
\* produced them.
C5_AtMostLimit ==
    (pc = "done" /\ ret.kind = "return" /\ limit >= 1) => Len(ret.value) <= limit

ResultKey(r) == IF op = "searchTrademarks" THEN TrademarkKey(r) ELSE PatentKey(r)

\* C6: no two records of a returned list share their identifying key, also
\* when the external index gives several results without a publication number
\* (stated for the lists that come from the external index, the case the claim
\* singles out).
C6_NoDuplicateKeys ==
    (pc = "done" /\ ret.kind = "return" /\ servedBy = "google_api") =>
       \A i \in 1..Len(ret.value) : \A j \in 1..Len(ret.value) :
          i # j => ResultKey(ret.value[i]) # ResultKey(ret.value[j])

\* C7: a query containing "blockchain" whose live adapters are exhausted gets
\* the blockchain data set.
C7_BlockchainTheme ==
    (PatentDone /\ limit >= 1 /\ servedBy = "mock"
        /\ TextContains(query, NeedleBlockchain)) =>
       ret.value = BlockchainPatentResults

\* the queries of the model that match no theme
UnthemedQueries == {QNonsense, QSolar, QEmpty, QSpace}

ThemedSets == {AIPatentResults, BlockchainPatentResults, QuantumPatentResults}

\* every title and abstract of the list carries the query
Interpolates(list, q) ==
    \A i \in 1..Len(list) :
        TextContains(list[i].title, q) /\ TextContains(list[i].abstract, q)

\* C8: for a query that matches no theme, a search whose adapters gave nothing
\* returns the generic data set with the query interpolated, not a themed one.
C8_GenericFallback ==
    (PatentDone /\ servedBy \in Synthetic /\ query \in UnthemedQueries) =>
       /\ ret.value \notin ThemedSets
       /\ Len(ret.value) > 0
       /\ Interpolates(ret.value, query)
       /\ servedBy = "mock" => ret.value = GenericPatentResults(query)

\* C8 witness: the external index gave nothing for "xyz123nonsense" and the
\* generic set came back
C8_Witness ==
    /\ PatentDone
    /\ query = QNonsense
    /\ limit >= 1
    /\ outcome.index = "empty"
    /\ servedBy = "mock"
    /\ ret.value = GenericPatentResults(QNonsense)

\* the source signal a completion carries, if it carries one
SourceUsed(r) == IF "sourceUsed" \in DOMAIN r THEN r.sourceUsed ELSE "absent"

\* C9: a completion carries sourceUsed = "fallback" exactly when its list is
\* static data.
C9_SourceSignal ==
    (pc = "done" /\ ret.kind = "return") =>
       (servedBy \in Synthetic <=> SourceUsed(ret) = "fallback")

----------------------------------------------------------------------------
(* Properties of the static generators *)

----------------------------------------------------------------------------
(* Invalid queries *)

\* a query the request validation is to refuse: '' (also what the route
\* handler passes on for a missing query) or only blanks
InvalidQuery(q) == q = <<>> \/ IsBlank(q)

\* C11: a patent search whose query is empty or blank is answered with the
\* empty list at once: no adapter is invoked and no static data is generated.
C11_EmptyQueryEmptyList ==
    (PatentDone /\ InvalidQuery(query) /\ limit >= 1) =>
       /\ ret.kind = "return"
       /\ ret.value = <<>>
       /\ trace = <<>>
       /\ servedBy \notin Synthetic

----------------------------------------------------------------------------
(* The browser session *)

\* the call in flight invoked the browser adapter
BrowserInvoked == \E i \in 1..Len(trace) : trace[i] = "browser"

\* C12: when a patent search that invoked the browser adapter has returned,
\* by whatever exit path (records, nothing, a failure in between), the
\* browser session opened for it is no longer held.
C12_SessionReleased ==
    (PatentDone /\ BrowserInvoked /\ ~InvalidQuery(query) /\ limit >= 1) =>
       driver = "null"

----------------------------------------------------------------------------
(* Concurrent requests on the server's one SimpleUSPTOService *)

\* The server holds one SimpleUSPTOService, which holds one
\* SeleniumUSPTOService with one driver field.  Each request's browser search
\* runs searchPatentsPublic on it; the requests interleave at its awaits.

\* a request arrives and runs to the first await: `if (!this.driver)` either
\* starts initialize() or issues driver.get on the session held
ReqStart(r) ==
    /\ useSelenium
    /\ reqPc[r] = "idle"
    /\ IF held = 0
       THEN /\ reqPc' = [reqPc EXCEPT ![r] = "initializing"]
            /\ UNCHANGED reqSession
       ELSE /\ reqPc' = [reqPc EXCEPT ![r] = "navigating"]
            /\ reqSession' = [reqSession EXCEPT ![r] = held]
    /\ UNCHANGED <<svcVars, genVars, idxVars, held, live, extVars>>

\* initialize(): Builder.build() settles.  A session built is assigned to the
\* driver field, whatever the field held; a failure is rethrown and ends the
\* browser search of the request.
ReqBuilt(r, ok) ==
    /\ reqPc[r] = "initializing"
    /\ IF ok
       THEN LET s == Cardinality(live) + 1 IN
            /\ live' = live \cup {s}
            /\ held' = s
            /\ driver' = "open"
            /\ reqSession' = [reqSession EXCEPT ![r] = s]
            /\ reqPc' = [reqPc EXCEPT ![r] = "initialized"]
       ELSE /\ reqPc' = [reqPc EXCEPT ![r] = "done"]
            /\ UNCHANGED <<live, held, driver, reqSession>>
    /\ UNCHANGED <<useSelenium, pc, op, query, limit, ret, trace, outcome, servedBy,
                   genVars, idxVars, extVars>>

\* after initialize(): this.driver!.get(...) on the session the field holds now
ReqNavigate(r) ==
    /\ reqPc[r] = "initialized"
    /\ reqPc' = [reqPc EXCEPT ![r] = "navigating"]
    /\ reqSession' = [reqSession EXCEPT ![r] = held]
    /\ UNCHANGED <<svcVars, genVars, idxVars, held, live, extVars>>

\* searchPatentsPublic gave nothing, so searchGooglePatents follows: the field
\* is set, and this.driver!.get(...) runs on the session it holds now
ReqSecondSite(r) ==
    /\ reqPc' = [reqPc EXCEPT ![r] = "navigating_google"]
    /\ reqSession' = [reqSession EXCEPT ![r] = held]

\* searchPatentsPublic: the page is there and this.driver!.wait / findElements
\* run on the session the field holds now, or the navigation failed and the
\* catch block returns []
ReqExtract(r, navOk) ==
    /\ reqPc[r] = "navigating"
    /\ IF navOk
       THEN /\ reqPc' = [reqPc EXCEPT ![r] = "extracting"]
            /\ reqSession' = [reqSession EXCEPT ![r] = held]
       ELSE ReqSecondSite(r)
    /\ UNCHANGED <<svcVars, genVars, idxVars, held, live, extVars>>

\* searchPatentsPublic returns: with records the browser search is over, the
\* session staying in the driver field; without, the second site follows
ReqReturn(r, found) ==
    /\ reqPc[r] = "extracting"
    /\ IF found
       THEN /\ reqPc' = [reqPc EXCEPT ![r] = "done"]
            /\ reqSession' = [reqSession EXCEPT ![r] = 0]
       ELSE ReqSecondSite(r)
    /\ UNCHANGED <<svcVars, genVars, idxVars, held, live, extVars>>

\* searchGooglePatents: as ReqExtract; a failed navigation ends the browser
\* search with the static list of getMockResults
ReqExtractGoogle(r, navOk) ==
    /\ reqPc[r] = "navigating_google"
    /\ IF navOk
       THEN /\ reqPc' = [reqPc EXCEPT ![r] = "extracting_google"]
            /\ reqSession' = [reqSession EXCEPT ![r] = held]
       ELSE /\ reqPc' = [reqPc EXCEPT ![r] = "done"]
            /\ reqSession' = [reqSession EXCEPT ![r] = 0]
    /\ UNCHANGED <<svcVars, genVars, idxVars, held, live, extVars>>

\* searchGooglePatents returns; the session stays in the driver field
ReqReturnGoogle(r) ==
    /\ reqPc[r] = "extracting_google"
    /\ reqPc' = [reqPc EXCEPT ![r] = "done"]
    /\ reqSession' = [reqSession EXCEPT ![r] = 0]
    /\ UNCHANGED <<svcVars, genVars, idxVars, held, live, extVars>>

\* the response is sent; the slot takes the next request
ReqComplete(r) ==
    /\ reqPc[r] = "done"
    /\ reqPc' = [reqPc EXCEPT ![r] = "idle"]
    /\ UNCHANGED <<svcVars, genVars, idxVars, reqSession, held, live, extVars>>

ConcNext ==
    \/ \E r \in Reqs : ReqStart(r)
    \/ \E r \in Reqs, ok \in BOOLEAN : ReqBuilt(r, ok)
    \/ \E r \in Reqs : ReqNavigate(r)
    \/ \E r \in Reqs, navOk \in BOOLEAN : ReqExtract(r, navOk)
    \/ \E r \in Reqs, found \in BOOLEAN : ReqReturn(r, found)
    \/ \E r \in Reqs, navOk \in BOOLEAN : ReqExtractGoogle(r, navOk)
    \/ \E r \in Reqs : ReqReturnGoogle(r)
    \/ \E r \in Reqs : ReqComplete(r)

ConcSpec == Init /\ [][ConcNext]_vars

\* C13: two browser searches in flight at once never drive the same browser
\* session: each one's commands run on a session of its own.
C13_ExclusiveSessions ==
    \A r1, r2 \in Reqs :
       (r1 # r2 /\ reqSession[r1] # 0 /\ reqSession[r2] # 0) =>
          reqSession[r1] # reqSession[r2]

----------------------------------------------------------------------------
(* The external index invoked directly *)

\* one result of a cluster as the index serves it: result.patent with its
\* publication_number and title
ResultItems ==
    {[publication_number |-> Lit("US1"), title |-> Lit("T1")],
     [publication_number |-> Lit("US2"), title |-> Lit("T2")]}

\* a cluster whose result property is the list of its results; a list has no
\* patent, title or link property
ListEntries ==
    {[shape |-> "list", publication_number |-> Undefined,
      patent_number |-> Undefined, title |-> Undefined, results |-> rs] :
        rs \in SeqsUpTo(ResultItems, MaxResults)}

\* chunks of a text that are markup: tags and character entities
MarkupChunks == {"<b>", "</b>", "&amp;"}

\* the text '<b>AI</b> &amp; ML'
MarkupTitle == <<"<b>", "AI", "</b>", " ", "&amp;", " ", "ML">>

\* an entry of the shape the map callback expects, its title carrying markup
MarkupEntries ==
    {[shape |-> "object", publication_number |-> Lit("US1"),
      patent_number |-> Undefined, title |-> MarkupTitle]}

\* what the HTTP GET of a direct call gives
Envelopes ==
    Responses \cup
    {[kind |-> "clusters", cluster |-> c] :
        c \in SeqsUpTo(ListEntries \cup MarkupEntries, MaxResults)}

\* the queries of direct calls
IdxQueries == {QEmpty, QSpace, QSolar}

\* a plausible slip: a failed request is sent once more
GoogleGetsRetry(q, resp) ==
    IF q = <<>> \/ IsBlank(q) THEN 0
    ELSE IF resp.kind = "error" THEN 2 ELSE 1

\* the number of axiosInstance.get calls of one searchPatentsViaGoogleAPI:
\* none when the guard returns, else the one of line 156
GoogleGets(q, resp) ==
    IF q = <<>> \/ IsBlank(q) THEN 0 ELSE 1

\* a direct call of searchPatentsViaGoogleAPI and what it leaves in the
\* histories
IdxCall(q, n, resp) ==
    /\ idxCalls < MaxIdxCalls
    /\ LET call == [query |-> q, limit |-> n, resp |-> resp,
                    out |-> searchPatentsViaGoogleAPI(q, n, resp),
                    gets |-> GoogleGets(q, resp)]
       IN  /\ idxLast' = call
           /\ idxProbe' = IF idxProbe = NoIdx THEN call ELSE idxProbe
           /\ idxBetween' = (idxBetween \/
                               (idxProbe # NoIdx /\
                                  <<q, n, resp>> #
                                  <<idxProbe.query, idxProbe.limit, idxProbe.resp>>))
    /\ idxCalls' = idxCalls + 1
    /\ UNCHANGED <<svcVars, genVars, concVars, extVars>>

\* the one call of a behaviour that calls the adapter once
InvokeIndex(q, n, resp) ==
    /\ idxCalls = 0
    /\ IdxCall(q, n, resp)

IndexNext ==
    /\ idxCalls = 0
    /\ \E q \in IdxQueries, n \in Limits, resp \in Envelopes : InvokeIndex(q, n, resp)

IndexSpec == Init /\ [][IndexNext]_vars

----------------------------------------------------------------------------
(* Properties of the external index *)

\* C14: a direct call of the external-index adapter with an empty or
\* blank-only query returns the empty list and issues no HTTP request,
\* whatever the index would have answered.
C14_EmptyQueryNoNetwork ==
    (idxCalls > 0 /\ idxLast.query \in {QEmpty, QSpace}) =>
       /\ idxLast.out = Returned(<<>>)
       /\ idxLast.gets = 0

\* C14 witness: a blank-only query met an index that had records to give
C14_Witness ==
    /\ idxCalls > 0
    /\ idxLast.query = QSpace
    /\ idxLast.limit >= 1
    /\ idxLast.resp.kind = "clusters"
    /\ Len(idxLast.resp.cluster) > 0
    /\ idxLast.out = Returned(<<>>)
    /\ idxLast.gets = 0

\* an entry that carries nothing of a result: null, or an object without
\* patent number and title
MalformedEntry(c) ==
    \/ c.shape = "null"
    \/ /\ c.shape = "object"
       /\ ~Truthy(c.publication_number)
       /\ ~Truthy(c.patent_number)
       /\ ~Truthy(c.title)

\* an answer of the index that is no well-formed envelope: the request failed,
\* results or cluster is missing, cluster is no list, or every entry of the
\* list is malformed
UnexpectedShape(resp) ==
    \/ resp.kind \in {"error", "nodata", "noresults", "nocluster", "notlist"}
    \/ /\ resp.kind = "clusters"
       /\ Len(resp.cluster) > 0
       /\ \A i \in 1..Len(resp.cluster) : MalformedEntry(resp.cluster[i])

\* C15: a direct call of the external-index adapter never throws, and a
\* failed request or an answer of unexpected shape gives the empty list.
C15_NeverThrowsEmptyOnBadShape ==
    (idxCalls > 0 /\ idxLast.query = QSolar /\ idxLast.limit >= 1) =>
       /\ idxLast.out.kind = "return"
       /\ UnexpectedShape(idxLast.resp) => idxLast.out.value = <<>>

\* every cluster of the envelope holds a list of results, at least one
Clustered(resp) ==
    /\ resp.kind = "clusters"
    /\ Len(resp.cluster) > 0
    /\ \A i \in 1..Len(resp.cluster) :
          /\ resp.cluster[i].shape = "list"
          /\ Len(resp.cluster[i].results) > 0

RECURSIVE Flatten(_)
\* the results of all clusters, in cluster order then result order
Flatten(clusters) ==
    IF clusters = <<>> THEN <<>>
    ELSE Head(clusters).results \o Flatten(Tail(clusters))

\* C16: for an envelope of clusters that each hold a list of results, the
\* adapter returns one record per result, in cluster order then result
\* order, cut to the first `limit` results.
C16_FlattenedInOrder ==
    (idxCalls > 0 /\ idxLast.query = QSolar /\ idxLast.limit >= 1
        /\ Clustered(idxLast.resp)) =>
       LET flat == Slice0(Flatten(idxLast.resp.cluster), idxLast.limit)
           out == idxLast.out.value
       IN  /\ Len(out) = Len(flat)
           /\ \A i \in 1..Len(flat) :
                 out[i].patentNumber = flat[i].publication_number

\* a text free of tags and character entities
NoMarkup(t) == \A j \in 1..Len(t) : t[j] \notin MarkupChunks

\* C17: the title and the abstract of every record the adapter returns are
\* free of markup tags and character entities.
C17_MarkupStripped ==
    (idxCalls > 0 /\ idxLast.query = QSolar /\ idxLast.limit >= 1) =>
       \A i \in 1..Len(idxLast.out.value) :
          /\ NoMarkup(idxLast.out.value[i].title)
          /\ NoMarkup(idxLast.out.value[i].abstract)

----------------------------------------------------------------------------
(* The external index parsing one envelope after another *)

\* the envelopes parsed repeatedly: a failed request, a missing results
\* property, entries with and without title, a null entry, a cluster holding
\* a list of results, a title with markup
ParseEnvelopes ==
    {[kind |-> "error", cluster |-> <<>>],
     [kind |-> "noresults", cluster |-> <<>>],
     [kind |-> "clusters", cluster |->
        <<[shape |-> "object", publication_number |-> Lit("US1"),
           patent_number |-> Undefined, title |-> Lit("T1")]>>],
     [kind |-> "clusters", cluster |->
        <<[shape |-> "object", publication_number |-> Lit("US1"),
           patent_number |-> Undefined, title |-> Lit("T1")],
          [shape |-> "object", publication_number |-> Lit("US2"),
           patent_number |-> Undefined, title |-> Undefined]>>],
     [kind |-> "clusters", cluster |-> <<NullCluster>>],
     [kind |-> "clusters", cluster |->
        <<[shape |-> "list", publication_number |-> Undefined,
           patent_number |-> Undefined, title |-> Undefined,
           results |-> <<[publication_number |-> Lit("US1"), title |-> Lit("T1")],
                         [publication_number |-> Lit("US2"), title |-> Lit("T2")]>>]>>]}
    \cup {[kind |-> "clusters", cluster |-> <<c>>] : c \in MarkupEntries}

ParseLimits == 1..MaxLimit

\* up to MaxIdxCalls calls of the adapter on one service
ParseNext ==
    \E n \in ParseLimits, resp \in ParseEnvelopes : IdxCall(QSolar, n, resp)

ParseSpec == Init /\ [][ParseNext]_vars

----------------------------------------------------------------------------
(* Requests of the external index *)

\* C19: one call of the external-index adapter issues at most one HTTP GET,
\* whether the request fails, the envelope is unusable or records come back.
C19_AtMostOneGet ==
    idxCalls > 0 => idxLast.gets <= 1

\* C19 witness: the one request of a call failed and the call returned []
C19_Witness ==
    /\ idxCalls > 0
    /\ idxLast.query = QSolar
    /\ idxLast.resp.kind = "error"
    /\ idxLast.gets = 1
    /\ idxLast.out = Returned(<<>>)

----------------------------------------------------------------------------
(* Identifiers of returned records *)

\* the record carries a patent number that is an identifier, not a missing
\* value, an empty text or the placeholder 'N/A'
RealIdentifier(r) == Truthy(r.patentNumber) /\ r.patentNumber # Lit("N/A")

\* C20: every record of a list a patent search returns carries a real
\* identifier; a record extracted without one is dropped before the return.
C20_EveryRecordIdentified ==
    (PatentDone /\ ret.kind = "return" /\ ~InvalidQuery(query) /\ limit >= 1) =>
       \A i \in 1..Len(ret.value) : RealIdentifier(ret.value[i])

----------------------------------------------------------------------------
(* The limit of a search *)

\* C21: an adapter is only ever invoked with a limit between 1 and 100: a
\* request's limit is clamped to that range before the first adapter runs.
C21_LimitClamped ==
    (op = "searchPatents" /\ ~InvalidQuery(query) /\ trace # <<>>) =>
       (1 <= limit /\ limit <= 100)

----------------------------------------------------------------------------
(* USPTOCrawler: deduplication *)

MaxDedup == 3   \* records in a list to deduplicate

\* PatentResult as deduplicatePatents reads it
CrawlerPatents ==
    [patentNumber : {Undefined, Lit("US11234567"), Lit("US2")},
     applicationNumber : {Undefined, Lit("US2")},
     title : {Lit("T1"), Lit("T2")}]

\* TrademarkResult as deduplicateTrademarks reads it
CrawlerTrademarks ==
    [serialNumber : {Undefined, Lit("88000001"), Lit("88000002")},
     registrationNumber : {Undefined, Lit("88000002")},
     mark : {Lit("M1"), Lit("M2")}]

\* patent.patentNumber || patent.applicationNumber || ''
CrawlerPatentKey(r) == OrElse(r.patentNumber, OrElse(r.applicationNumber, <<>>))

\* trademark.serialNumber || trademark.registrationNumber || ''
CrawlerTrademarkKey(r) == OrElse(r.serialNumber, OrElse(r.registrationNumber, <<>>))

RECURSIVE DedupFilterNoAdd(_, _, _)
\* a plausible slip: seen.add(key) is missing
DedupFilterNoAdd(list, keys, seen) ==
    IF list = <<>> THEN <<>>
    ELSE IF Head(keys) \in seen
         THEN DedupFilterNoAdd(Tail(list), Tail(keys), seen)
         ELSE <<Head(list)>> \o DedupFilterNoAdd(Tail(list), Tail(keys), seen)

RECURSIVE DedupFilter(_, _, _)
\* the filter callback over the list, with the Set `seen` it fills
DedupFilter(list, keys, seen) ==
    IF list = <<>> THEN <<>>
    ELSE IF Head(keys) \in seen
         THEN DedupFilter(Tail(list), Tail(keys), seen)
         ELSE <<Head(list)>> \o DedupFilter(Tail(list), Tail(keys), seen \cup {Head(keys)})

deduplicatePatents(patents) ==
    DedupFilter(patents, [i \in 1..Len(patents) |-> CrawlerPatentKey(patents[i])], {})

deduplicateTrademarks(trademarks) ==
    DedupFilter(trademarks,
                [i \in 1..Len(trademarks) |-> CrawlerTrademarkKey(trademarks[i])], {})

\* advancedSearch: the patents of the sources, merged in source order, are
\* deduplicated
DedupPatents(patents) ==
    /\ dedup.kind = "none"
    /\ dedup' = [kind |-> "patent", input |-> patents, out |-> deduplicatePatents(patents)]
    /\ UNCHANGED <<svcVars, genVars, concVars, idxVars, classify, cmVars, detail, crawlVars, site, conc, tool, stream>>

\* advancedSearch: the trademarks are deduplicated
DedupTrademarks(trademarks) ==
    /\ dedup.kind = "none"
    /\ dedup' = [kind |-> "trademark", input |-> trademarks,
                 out |-> deduplicateTrademarks(trademarks)]
    /\ UNCHANGED <<svcVars, genVars, concVars, idxVars, classify, cmVars, detail, crawlVars, site, conc, tool, stream>>

\* one list is deduplicated in a behaviour
DedupNext ==
    /\ dedup.kind = "none"
    /\ \/ \E patents \in SeqsUpTo(CrawlerPatents, MaxDedup) : DedupPatents(patents)
       \/ \E trademarks \in SeqsUpTo(CrawlerTrademarks, MaxDedup) : DedupTrademarks(trademarks)

DedupSpec == Init /\ [][DedupNext]_vars

\* the key the deduplication is specified on: the first identifying field
\* when the record has it, else the second
FirstKey(r) ==
    IF dedup.kind = "patent"
    THEN (IF Truthy(r.patentNumber) THEN r.patentNumber ELSE r.applicationNumber)
    ELSE (IF Truthy(r.serialNumber) THEN r.serialNumber ELSE r.registrationNumber)

\* the positions of the input that hold the first record of their key
FirstPositions ==
    {i \in 1..Len(dedup.input) :
        \A j \in 1..(i - 1) : FirstKey(dedup.input[j]) # FirstKey(dedup.input[i])}

\* C22: the deduplicated list holds, for every key of the input, the first
\* record with that key and no other record, in the order of the input.
C22_FirstWinsStable ==
    dedup.kind # "none" =>
       /\ Len(dedup.out) = Cardinality(FirstPositions)
       /\ \A i \in FirstPositions :
             dedup.out[Cardinality({j \in FirstPositions : j <= i})] = dedup.input[i]

\* C22 witness: two sources report US11234567 with different titles, then a
\* third record follows; the first report and the third record survive
C22_Witness ==
    /\ dedup.kind = "patent"
    /\ Len(dedup.input) = 3
    /\ dedup.input[1].patentNumber = Lit("US11234567")
    /\ dedup.input[2].patentNumber = Lit("US11234567")
    /\ dedup.input[1].title # dedup.input[2].title
    /\ dedup.input[3].patentNumber = Lit("US2")
    /\ dedup.out = <<dedup.input[1], dedup.input[3]>>

----------------------------------------------------------------------------
(* Crawl4AIService: the content classifier and the targeted options *)

MaxWords == 2   \* words in the content of a crawled page

\* words a crawled page is made of
WPatent == <<"P", "a", "t", "e", "n", "t">>
WApplication == <<"A", "p", "p", "l", "i", "c", "a", "t", "i", "o", "n">>
WGrant == <<"g", "r", "a", "n", "t">>
WTrademark == <<"T", "r", "a", "d", "e", "m", "a", "r", "k">>
WRegistration == <<"r", "e", "g", "i", "s", "t", "r", "a", "t", "i", "o", "n">>
WPtab == <<"P", "T", "A", "B">>
WTrial == <<"T", "r", "i", "a", "l", " ", "a", "n", "d", " ", "A", "p", "p", "e", "a", "l">>
WNotice == <<"n", "o", "t", "i", "c", "e">>

PageWords == {WPatent, WApplication, WGrant, WTrademark, WRegistration, WPtab, WTrial, WNotice}

\* the literals identifyUSPTOContent looks for
NeedlePatent == <<"p", "a", "t", "e", "n", "t">>
NeedleApplication == <<"a", "p", "p", "l", "i", "c", "a", "t", "i", "o", "n">>
NeedleGrant == <<"g", "r", "a", "n", "t">>
NeedleTrademark == <<"t", "r", "a", "d", "e", "m", "a", "r", "k">>
NeedleRegistration == <<"r", "e", "g", "i", "s", "t", "r", "a", "t", "i", "o", "n">>
NeedlePtab == <<"p", "t", "a", "b">>
NeedleTrialAndAppeal == <<"t", "r", "i", "a", "l", " ", "a", "n", "d", " ", "a", "p", "p", "e", "a", "l">>

RECURSIVE JoinWords(_)
\* the words of a text, separated by blanks
JoinWords(ws) ==
    IF ws = <<>> THEN <<>>
    ELSE IF Len(ws) = 1 THEN ws[1]
    ELSE ws[1] \o <<" ">> \o JoinWords(Tail(ws))

\* crawlResult.content: missing, or a text of up to MaxWords words
PageContents == {Undefined} \cup {JoinWords(ws) : ws \in SeqsUpTo(PageWords, MaxWords)}

\* crawlResult.title: missing, empty or one of the words
PageTitles1 == {Undefined, <<>>} \cup PageWords

\* (text || '').toLowerCase()
LowerOrEmpty(t) == toLowerCase(OrElse(t, <<>>))

\* a plausible slip: the two tests of the patent branch are swapped
identifyUSPTOContentGrantFirst(pageTitle, pageContent) ==
    LET content == LowerOrEmpty(pageContent)
        title == LowerOrEmpty(pageTitle)
    IN  IF includes(content, NeedlePatent) \/ includes(title, NeedlePatent)
        THEN (IF includes(content, NeedleGrant) THEN "patent-grant"
              ELSE IF includes(content, NeedleApplication) THEN "patent-application"
              ELSE "patent-general")
        ELSE IF includes(content, NeedleTrademark) \/ includes(title, NeedleTrademark)
        THEN (IF includes(content, NeedleRegistration) THEN "trademark-registration"
              ELSE IF includes(content, NeedleApplication) THEN "trademark-application"
              ELSE "trademark-general")
        ELSE IF includes(content, NeedlePtab) \/ includes(content, NeedleTrialAndAppeal)
        THEN "ptab-decision"
        ELSE "general"

\* Crawl4AIService.identifyUSPTOContent
identifyUSPTOContent(pageTitle, pageContent) ==
    LET content == LowerOrEmpty(pageContent)
        title == LowerOrEmpty(pageTitle)
    IN  IF includes(content, NeedlePatent) \/ includes(title, NeedlePatent)
        THEN (IF includes(content, NeedleApplication) THEN "patent-application"
              ELSE IF includes(content, NeedleGrant) THEN "patent-grant"
              ELSE "patent-general")
        ELSE IF includes(content, NeedleTrademark) \/ includes(title, NeedleTrademark)
        THEN (IF includes(content, NeedleRegistration) THEN "trademark-registration"
              ELSE IF includes(content, NeedleApplication) THEN "trademark-application"
              ELSE "trademark-general")
        ELSE IF includes(content, NeedlePtab) \/ includes(content, NeedleTrialAndAppeal)
        THEN "ptab-decision"
        ELSE "general"

\* a plausible slip: the case for PTAB decisions is missing from the switch
getTargetedExtractionOptionsNoPtab(contentType) ==
    IF contentType \in {"patent-application", "patent-grant"}
    THEN [extractionStrategy |-> "llm", waitForSelector |-> "div.patent-content"]
    ELSE IF contentType \in {"trademark-registration", "trademark-application"}
    THEN [extractionStrategy |-> "css", waitForSelector |-> "div.trademark-details"]
    ELSE [extractionStrategy |-> "auto", waitForSelector |-> ""]

\* Crawl4AIService.getTargetedExtractionOptions
getTargetedExtractionOptions(contentType) ==
    IF contentType \in {"patent-application", "patent-grant"}
    THEN [extractionStrategy |-> "llm", waitForSelector |-> "div.patent-content"]
    ELSE IF contentType \in {"trademark-registration", "trademark-application"}
    THEN [extractionStrategy |-> "css", waitForSelector |-> "div.trademark-details"]
    ELSE IF contentType = "ptab-decision"
    THEN [extractionStrategy |-> "llm", waitForSelector |-> "div.decision-content"]
    ELSE [extractionStrategy |-> "auto", waitForSelector |-> ""]

\* smartCrawl between its two crawls: the first crawl's title and content are
\* classified and the options of the second crawl are chosen
Classify(pageTitle, pageContent) ==
    /\ classify.type = "none"
    /\ LET type == identifyUSPTOContent(pageTitle, pageContent) IN
       classify' = [title |-> pageTitle, content |-> pageContent, type |-> type,
                    strategy |-> getTargetedExtractionOptions(type).extractionStrategy]
    /\ UNCHANGED <<svcVars, genVars, concVars, idxVars, dedup, cmVars, detail, crawlVars, site, conc, tool, stream>>

ClassifyNext ==
    \E pageTitle \in PageTitles1, pageContent \in PageContents :
       Classify(pageTitle, pageContent)

ClassifySpec == Init /\ [][ClassifyNext]_vars

\* the page mentions the word: its lower-cased title or content contains it
Mentions(needle) ==
    \/ TextContains(LowerOrEmpty(classify.title), needle)
    \/ TextContains(LowerOrEmpty(classify.content), needle)

\* the type the priority order gives when every word is looked for in the
\* title and the content
TypeByMentions ==
    IF Mentions(NeedlePatent)
    THEN (IF Mentions(NeedleApplication) THEN "patent-application"
          ELSE IF Mentions(NeedleGrant) THEN "patent-grant"
          ELSE "patent-general")
    ELSE IF Mentions(NeedleTrademark)
    THEN (IF Mentions(NeedleRegistration) THEN "trademark-registration"
          ELSE IF Mentions(NeedleApplication) THEN "trademark-application"
          ELSE "trademark-general")
    ELSE IF Mentions(NeedlePtab) \/ Mentions(NeedleTrialAndAppeal)
    THEN "ptab-decision"
    ELSE "general"

ContentTypes ==
    {"patent-application", "patent-grant", "patent-general",
     "trademark-registration", "trademark-application", "trademark-general",
     "ptab-decision", "general"}

\* C23 as stated: the classifier gives every page exactly one of the eight
\* types, the one the priority order selects from what the lower-cased title
\* and content mention.
C23_ClassifiedByMentions ==
    classify.type # "none" =>
       /\ classify.type \in ContentTypes
       /\ classify.type = TypeByMentions

\* the lower-cased content contains the word
InContent(needle) == TextContains(LowerOrEmpty(classify.content), needle)

\* C23: the classifier gives every page exactly one of the eight types.  The
\* family is decided on the lower-cased title and content: patent when either
\* mentions "patent", else trademark when either mentions "trademark".  Within
\* a family and for PTAB only the lower-cased content counts: application
\* before grant before general; registration before application before
\* general; ptab-decision for "ptab" or "trial and appeal"; otherwise general.
C23_ClassifiedByPriority ==
    classify.type # "none" =>
       /\ classify.type \in ContentTypes
       /\ Mentions(NeedlePatent) =>
             /\ InContent(NeedleApplication) => classify.type = "patent-application"
             /\ (~InContent(NeedleApplication) /\ InContent(NeedleGrant)) =>
                   classify.type = "patent-grant"
             /\ (~InContent(NeedleApplication) /\ ~InContent(NeedleGrant)) =>
                   classify.type = "patent-general"
       /\ (~Mentions(NeedlePatent) /\ Mentions(NeedleTrademark)) =>
             /\ InContent(NeedleRegistration) => classify.type = "trademark-registration"
             /\ (~InContent(NeedleRegistration) /\ InContent(NeedleApplication)) =>
                   classify.type = "trademark-application"
             /\ (~InContent(NeedleRegistration) /\ ~InContent(NeedleApplication)) =>
                   classify.type = "trademark-general"
       /\ (~Mentions(NeedlePatent) /\ ~Mentions(NeedleTrademark)) =>
             classify.type = (IF InContent(NeedlePtab) \/ InContent(NeedleTrialAndAppeal)
                              THEN "ptab-decision" ELSE "general")

\* C23 witness: a page titled Patent whose content mentions both a grant and
\* an application is a patent application
C23_Witness ==
    /\ classify.type = "patent-application"
    /\ TextContains(LowerOrEmpty(classify.title), NeedlePatent)
    /\ InContent(NeedleGrant)
    /\ InContent(NeedleApplication)

\* C24 as stated: the second pass extracts with an LLM instruction for every
\* patent and PTAB type and with a selector map for every trademark type.
C24_StrategyByFamily ==
    classify.type # "none" =>
       /\ classify.type \in {"patent-application", "patent-grant", "patent-general",
                             "ptab-decision"} => classify.strategy = "llm"
       /\ classify.type \in {"trademark-registration", "trademark-application",
                             "trademark-general"} => classify.strategy = "css"

\* C24: the second pass extracts with an LLM instruction for
\* patent-application, patent-grant and ptab-decision, with a selector map
\* for trademark-registration and trademark-application, and with the
\* automatic strategy for patent-general, trademark-general and general.
C24_StrategyByType ==
    classify.type # "none" =>
       /\ classify.type \in {"patent-application", "patent-grant", "ptab-decision"}
             => classify.strategy = "llm"
       /\ classify.type \in {"trademark-registration", "trademark-application"}
             => classify.strategy = "css"
       /\ classify.type \in {"patent-general", "trademark-general", "general"}
             => classify.strategy = "auto"

\* C24 witness: a page classified as PTAB decision gets the LLM strategy
C24_Witness ==
    /\ classify.type = "ptab-decision"
    /\ InContent(NeedleTrialAndAppeal)
    /\ classify.strategy = "llm"

----------------------------------------------------------------------------
(* Crawl4AIService.crawlMultiple *)

MaxUrls == 11    \* urls.length ranges over 0 .. MaxUrls

\* const batchSize = 5
BatchSize == 5

\* a plausible slip: the slice is one element too long
BatchOfWide(i, n) == (i + 1)..Min(i + BatchSize + 1, n)

\* urls.slice(i, i + batchSize), as positions 1 .. n of urls
BatchOf(i, n) == (i + 1)..Min(i + BatchSize, n)

\* a plausible slip: the delay is not guarded
ShouldPauseAlways(i, n) == TRUE

\* if (i + batchSize < urls.length)
ShouldPause(i, n) == i + BatchSize < n

\* batch.map(url => this.crawl(url, options)): every crawl of the batch starts
StartBatch(crawl, i, n) ==
    [u \in 1..n |-> IF u \in BatchOf(i, n) THEN "inflight" ELSE crawl[u]]

\* crawlMultiple up to its first await (or its return for no url)
CrawlMultiple(n) ==
    /\ cmPc = "idle"
    /\ cmUrls' = n
    /\ cmI' = 0
    /\ cmDelays' = 0
    /\ IF 0 < n
       THEN /\ cmPc' = "batch"
            /\ cmCrawl' = StartBatch([u \in 1..n |-> "pending"], 0, n)
       ELSE /\ cmPc' = "done"
            /\ cmCrawl' = <<>>
    /\ UNCHANGED <<svcVars, genVars, concVars, idxVars, dedup, classify, detail, crawlVars, site, conc, tool, stream>>

\* one crawl settles: with a result (also a failed one), or rejected because
\* initialize() threw.  Promise.all rejects with the first rejection and
\* resolves with the last result of the batch; then the results are pushed
\* and the loop either delays or ends.
CrawlSettles(u, ok) ==
    /\ u \in 1..cmUrls
    /\ cmCrawl[u] = "inflight"
    /\ LET crawl == [cmCrawl EXCEPT ![u] = IF ok THEN "result" ELSE "rejected"] IN
       /\ cmCrawl' = crawl
       /\ IF cmPc = "batch" /\ ~ok
          THEN /\ cmPc' = "thrown"
               /\ UNCHANGED <<cmI, cmDelays>>
          ELSE IF cmPc = "batch" /\ \A v \in BatchOf(cmI, cmUrls) : crawl[v] = "result"
          THEN IF ShouldPause(cmI, cmUrls)
               THEN /\ cmPc' = "pause"
                    /\ cmDelays' = cmDelays + 1
                    /\ UNCHANGED cmI
               ELSE /\ cmPc' = "done"
                    /\ cmI' = cmI + BatchSize
                    /\ UNCHANGED cmDelays
          ELSE UNCHANGED <<cmPc, cmI, cmDelays>>
    /\ UNCHANGED <<svcVars, genVars, concVars, idxVars, dedup, classify, cmUrls, detail, crawlVars, site, conc, tool, stream>>

\* the delay is over: i += batchSize, and the next batch starts if i is still
\* below urls.length
DelayEnds ==
    /\ cmPc = "pause"
    /\ cmI' = cmI + BatchSize
    /\ IF cmI + BatchSize < cmUrls
       THEN /\ cmPc' = "batch"
            /\ cmCrawl' = StartBatch(cmCrawl, cmI + BatchSize, cmUrls)
       ELSE /\ cmPc' = "done"
            /\ UNCHANGED cmCrawl
    /\ UNCHANGED <<svcVars, genVars, concVars, idxVars, dedup, classify, cmUrls, cmDelays, detail, crawlVars, site, conc, tool, stream>>

BatchNext ==
    \/ \E n \in 0..MaxUrls : CrawlMultiple(n)
    \/ \E u \in 1..MaxUrls, ok \in BOOLEAN : CrawlSettles(u, ok)
    \/ DelayEnds

BatchSpec == Init /\ [][BatchNext]_vars

\* the crawls in flight
InFlight == {u \in 1..cmUrls : cmCrawl[u] = "inflight"}

\* the number of the batch of five a url belongs to, counted from 0
FiveOf(u) == (u - 1) \div 5

\* C25: the urls are crawled in consecutive batches of at most 5: at most 5
\* crawls are in flight, they belong to one batch, every crawl of the batches
\* before it has completed and no crawl of a later batch has started.
C25_BatchesOfFive ==
    /\ Cardinality(InFlight) <= 5
    /\ \A u \in InFlight :
          \A v \in 1..cmUrls :
             /\ v \in InFlight => FiveOf(v) = FiveOf(u)
             /\ FiveOf(v) < FiveOf(u) => cmCrawl[v] \in {"result", "rejected"}
             /\ FiveOf(v) > FiveOf(u) => cmCrawl[v] = "pending"

\* C25 witness: the first five crawls have completed and the second batch is
\* in flight, one of its crawls done already
C25_Witness ==
    /\ cmPc = "batch"
    /\ cmUrls >= 8
    /\ \A u \in 1..5 : cmCrawl[u] = "result"
    /\ cmCrawl[6] = "result"
    /\ cmCrawl[7] = "inflight"
    /\ cmCrawl[8] = "inflight"

\* ceil(n / 5)
BatchesOf(n) == (n + 4) \div 5

\* C26: crawlMultiple delays between two consecutive batches and nowhere
\* else: a delay starts only when the batch before it has completed and a
\* batch is still to come, every batch but the first follows one delay, and a
\* call that returns has delayed ceil(n/5) - 1 times (never for n <= 5).
C26_PausesBetweenBatches ==
    /\ cmPc = "pause" =>
          /\ cmI + 5 < cmUrls
          /\ InFlight = {}
          /\ \A u \in 1..(cmI + 5) : cmCrawl[u] = "result"
          /\ cmCrawl[cmI + 6] = "pending"
    /\ cmPc = "batch" => cmDelays = cmI \div 5
    /\ cmPc = "done" =>
          cmDelays = (IF cmUrls <= 5 THEN 0 ELSE BatchesOf(cmUrls) - 1)

\* C26 witness: eleven urls were crawled in three batches with two delays
C26_Witness ==
    /\ cmPc = "done"
    /\ cmUrls = 11
    /\ \A u \in 1..11 : cmCrawl[u] = "result"
    /\ cmDelays = 2


-----------------------------------------------------------------------------
(* USPTOCrawler.fetchPatentDetails and fetchTrademarkDetails: the records of
   a search are enriched one after the other.  A record is modelled by the
   one field the loop reads, its url (patents) or serialNumber (trademarks):
   TRUE when the field is truthy. *)

MaxItems == 3   \* a list of records has 0 .. MaxItems entries

\* the lists of records handed to a detail fetch
DetailItems == UNION {[1..n -> BOOLEAN] : n \in 0..MaxItems}

\* for (const patent of patents) { if (!patent.url) continue; ... }: the next
\* record after position i that is fetched, Len(items) + 1 when there is none
NextItem(items, i) ==
    IF \E j \in (i + 1)..Len(items) : items[j]
    THEN CHOOSE j \in (i + 1)..Len(items) :
            items[j] /\ \A k \in (i + 1)..(j - 1) : ~items[k]
    ELSE Len(items) + 1

ShouldDelayNever(items, i) == FALSE

\* await this.delay(500) closes every iteration that fetched
ShouldDelay(items, i) == TRUE

\* the loop reaches record j: the fetch of j starts, or the list is returned
LoopTo(d, j) ==
    IF j <= Len(d.items)
    THEN [d EXCEPT !.pc = "fetch", !.i = j, !.log = Append(d.log, <<"fetch", j>>)]
    ELSE [d EXCEPT !.pc = "done", !.i = j]

\* what is pushed for a record whose fetch ended with outcome o: smartCrawl
\* results with data are merged into the patent; checkTrademarkStatus throws
\* when its crawl failed and every status it returns is merged
Pushed(kind, j, o) ==
    IF kind = "patent"
    THEN <<j, o = "data">>
    ELSE <<j, o # "throw">>

FetchDetails(kind, items) ==
    /\ detail.pc = "idle"
    /\ detail' = LoopTo([detail EXCEPT !.kind = kind, !.items = items],
                        NextItem(items, 0))
    /\ UNCHANGED <<svcVars, genVars, concVars, idxVars, dedup, classify, cmVars, crawlVars, site, conc, tool, stream>>

FetchSettles(o) ==
    /\ detail.pc = "fetch"
    /\ LET d == [detail EXCEPT
                    !.detailed = Append(@, Pushed(detail.kind, detail.i, o)),
                    !.log = Append(@, <<"settled", detail.i>>)]
       IN  detail' = IF ShouldDelay(d.items, d.i)
                     THEN [d EXCEPT !.pc = "delay", !.log = Append(@, <<"delay", d.i>>)]
                     ELSE LoopTo(d, NextItem(d.items, d.i))
    /\ UNCHANGED <<svcVars, genVars, concVars, idxVars, dedup, classify, cmVars, crawlVars, site, conc, tool, stream>>

DetailDelayEnds ==
    /\ detail.pc = "delay"
    /\ detail' = LoopTo([detail EXCEPT !.log = Append(@, <<"delayed", detail.i>>)],
                        NextItem(detail.items, detail.i))
    /\ UNCHANGED <<svcVars, genVars, concVars, idxVars, dedup, classify, cmVars, crawlVars, site, conc, tool, stream>>

DetailNext ==
    \/ \E kind \in {"patent", "trademark"}, items \in DetailItems :
          FetchDetails(kind, items)
    \/ \E o \in {"data", "nodata", "throw"} : FetchSettles(o)
    \/ DetailDelayEnds

DetailSpec == Init /\ [][DetailNext]_vars

\* the positions of the log that hold event e of record j
LogAt(e, j) == {p \in 1..Len(detail.log) : detail.log[p] = <<e, j>>}

\* the records whose fetch has started, and those still in flight
Fetched == {j \in 1..Len(detail.items) : LogAt("fetch", j) # {}}
FetchesInFlight == {j \in Fetched : LogAt("settled", j) = {}}

-----------------------------------------------------------------------------
(* The browser adapter's failures *)

\* C28: the browser adapter never throws to its caller: whatever fails inside
\* it, a failed start of the browser session included, the orchestrator gets
\* a list back and never lands in its catch block.
C28_BrowserNeverThrows ==
    (op = "searchPatents" /\ BrowserInvoked /\ ~InvalidQuery(query) /\ limit >= 1) =>
       outcome.browser # "error"

-----------------------------------------------------------------------------
(* Crawl4AIService.crawl: one crawl of one url, with the initialization the
   first call runs *)

MaxCrawls == 2   \* calls of crawl made one after the other

CrawlUrls == {"https://www.uspto.gov/a", "https://www.uspto.gov/b"}

Strategies == {"auto", "css", "llm"}

\* the pages a crawl can bring back: the title and content of its JSON output
CrawledPages ==
    {[title |-> WPatent, content |-> WApplication],
     [title |-> WPatent, content |-> WGrant],
     [title |-> Undefined, content |-> WPatent],
     [title |-> WTrademark, content |-> WRegistration],
     [title |-> WTrademark, content |-> WApplication],
     [title |-> WTrademark, content |-> Undefined],
     [title |-> <<>>, content |-> WPtab],
     [title |-> WNotice, content |-> WNotice]}

\* how the python3 process of a crawl ends: JSON output of a crawl that
\* succeeded or failed, output that is no JSON, a non-zero exit, the timeout
ExecOutcomes ==
    {[kind |-> "json", success |-> TRUE, page |-> p] : p \in CrawledPages}
    \cup {[kind |-> k, success |-> FALSE, page |-> [title |-> Undefined, content |-> Undefined]] :
             k \in {"json", "nonjson", "exit", "timeout"}}

\* the CrawlResult made from the process's end: the parsed fields, or the
\* catch block's { url, success: false, error }
CrawlResultOf(o) ==
    IF o.kind = "json"
    THEN [kind |-> "returned", success |-> o.success,
          error |-> IF o.success THEN "" ELSE "crawl failed",
          title |-> o.page.title, content |-> o.page.content]
    ELSE [kind |-> "returned", success |-> FALSE,
          error |-> IF o.kind = "nonjson" THEN "Unexpected token"
                    ELSE IF o.kind = "exit" THEN "Command failed"
                    ELSE "timed out",
          title |-> Undefined, content |-> Undefined]

\* the exception initialize() lets through
CrawlThrown(message) ==
    [kind |-> "thrown", success |-> FALSE, error |-> message,
     title |-> Undefined, content |-> Undefined]

\* entry of crawl: if (!this.isInitialized) await this.initialize(), else the
\* crawl's own process is started right away
StartCrawl(c, init, url, strategy) ==
    [c EXCEPT !.pc = IF init THEN "exec" ELSE "pip_show",
              !.url = url,
              !.strategy = strategy,
              !.procs = IF init THEN <<"python3 crawl">> ELSE <<"pip show">>,
              !.calls = @ + 1,
              !.res = NoResult]

CallCrawl(url, strategy) ==
    /\ smart.pc = "idle"
    /\ crawlCall.pc \in {"idle", "done", "thrown"}
    /\ crawlCall.calls < MaxCrawls
    /\ crawlCall' = StartCrawl(crawlCall, isInitialized, url, strategy)
    /\ UNCHANGED <<svcVars, genVars, concVars, idxVars, dedup, classify, cmVars,
                   detail, site, conc, tool, stream, isInitialized, smart>>

\* checkAndInstallCrawl4AI: pip show crawl4ai ends
PipShow(ok) ==
    /\ crawlCall.pc = "pip_show"
    /\ crawlCall' =
          IF ok
          THEN [crawlCall EXCEPT !.pc = "verify", !.procs = Append(@, "python3 test")]
          ELSE [crawlCall EXCEPT !.pc = "pip_install", !.procs = Append(@, "pip install")]
    /\ UNCHANGED <<svcVars, genVars, concVars, idxVars, dedup, classify, cmVars,
                   detail, site, conc, tool, stream, isInitialized, smart>>

\* checkAndInstallCrawl4AI: pip install crawl4ai ends
PipInstall(ok) ==
    /\ crawlCall.pc = "pip_install"
    /\ crawlCall' =
          IF ok
          THEN [crawlCall EXCEPT !.pc = "verify", !.procs = Append(@, "python3 test")]
          ELSE [crawlCall EXCEPT !.pc = "thrown",
                                 !.res = CrawlThrown("Please install Crawl4AI manually")]
    /\ UNCHANGED <<svcVars, genVars, concVars, idxVars, dedup, classify, cmVars,
                   detail, site, conc, tool, stream, isInitialized, smart>>

\* verifyCrawl4AI: the test process ends; on 'True' the service is initialized
\* and crawl goes on to its own process
VerifyCrawl4AI(out) ==
    /\ crawlCall.pc = "verify"
    /\ IF out = "True"
       THEN /\ isInitialized' = TRUE
            /\ crawlCall' = [crawlCall EXCEPT !.pc = "exec",
                                              !.procs = Append(@, "python3 crawl")]
       ELSE /\ isInitialized' = isInitialized
            /\ crawlCall' = [crawlCall EXCEPT
                                !.pc = "thrown",
                                !.res = CrawlThrown(IF out = "exit" THEN "Command failed"
                                               ELSE "Crawl4AI test failed")]
    /\ UNCHANGED <<svcVars, genVars, concVars, idxVars, dedup, classify, cmVars,
                   detail, site, conc, tool, stream, smart>>

\* the crawl's python3 process ends: parse and return, or catch and return
ExecSettles(o) ==
    /\ crawlCall.pc = "exec"
    /\ crawlCall' = [crawlCall EXCEPT !.pc = "done", !.res = CrawlResultOf(o)]
    /\ UNCHANGED <<svcVars, genVars, concVars, idxVars, dedup, classify, cmVars,
                   detail, site, conc, tool, stream, isInitialized, smart>>

CrawlSteps ==
    \/ \E ok \in BOOLEAN : PipShow(ok)
    \/ \E ok \in BOOLEAN : PipInstall(ok)
    \/ \E out \in {"True", "False", "exit"} : VerifyCrawl4AI(out)
    \/ \E o \in ExecOutcomes : ExecSettles(o)

CrawlNext ==
    \/ \E url \in CrawlUrls, strategy \in Strategies : CallCrawl(url, strategy)
    \/ CrawlSteps

CrawlSpec == Init /\ [][CrawlNext]_vars

\* C29: a call of crawl that has ended spawned exactly one external process,
\* and it ended by returning: a result with success = false and an error
\* detail when that process exited non-zero, timed out or printed no JSON.
C29_OneProcessPerCrawl ==
    crawlCall.pc \in {"done", "thrown"} =>
       /\ Len(crawlCall.procs) = 1
       /\ crawlCall.res.kind = "returned"
       /\ crawlCall.res.success \/ crawlCall.res.error # ""

-----------------------------------------------------------------------------
(* Crawl4AIService.smartCrawl: a first crawl to classify the page, a second
   one with the options chosen for its type *)

\* entry: the first crawl, with extractionStrategy 'auto', is started
SmartCrawl(url) ==
    /\ smart.pc = "idle"
    /\ crawlCall.pc = "idle"
    /\ smart' = [smart EXCEPT !.pc = "pass1", !.url = url,
                              !.crawls = <<<<url, "auto">>>>]
    /\ crawlCall' = StartCrawl(crawlCall, isInitialized, url, "auto")
    /\ UNCHANGED <<svcVars, genVars, concVars, idxVars, dedup, classify, cmVars,
                   detail, site, conc, tool, stream, isInitialized>>

\* the first crawl has ended: its exception leaves smartCrawl, its failed
\* result is returned as it is, and after a successful one the page is
\* classified and the second crawl is started
SmartFirstPass ==
    /\ smart.pc = "pass1"
    /\ crawlCall.pc \in {"done", "thrown"}
    /\ LET initialCrawl == crawlCall.res
           contentType == identifyUSPTOContent(initialCrawl.title, initialCrawl.content)
           targetedOptions == getTargetedExtractionOptions(contentType)
       IN  IF crawlCall.pc = "thrown"
           THEN /\ smart' = [smart EXCEPT !.pc = "thrown", !.initialCrawl = initialCrawl,
                                          !.res = initialCrawl]
                /\ UNCHANGED crawlCall
           ELSE IF ~initialCrawl.success
           THEN /\ smart' = [smart EXCEPT !.pc = "done", !.initialCrawl = initialCrawl,
                                          !.res = initialCrawl]
                /\ UNCHANGED crawlCall
           ELSE /\ smart' = [smart EXCEPT
                                !.pc = "pass2",
                                !.initialCrawl = initialCrawl,
                                !.contentType = contentType,
                                !.crawls = Append(@, <<smart.url,
                                                      targetedOptions.extractionStrategy>>)]
                /\ crawlCall' = StartCrawl(crawlCall, isInitialized, smart.url,
                                           targetedOptions.extractionStrategy)
    /\ UNCHANGED <<svcVars, genVars, concVars, idxVars, dedup, classify, cmVars,
                   detail, site, conc, tool, stream, isInitialized>>

\* the second crawl has ended: its result is returned with the content type
\* and the two-pass mark in its metadata
SmartSecondPass ==
    /\ smart.pc = "pass2"
    /\ crawlCall.pc \in {"done", "thrown"}
    /\ smart' = IF crawlCall.pc = "thrown"
                THEN [smart EXCEPT !.pc = "thrown", !.res = crawlCall.res]
                ELSE [smart EXCEPT !.pc = "done", !.res = crawlCall.res,
                                   !.twoPassExtraction = TRUE]
    /\ UNCHANGED <<svcVars, genVars, concVars, idxVars, dedup, classify, cmVars,
                   detail, site, conc, tool, stream, isInitialized, crawlCall>>

SmartNext ==
    \/ \E url \in CrawlUrls : SmartCrawl(url)
    \/ CrawlSteps
    \/ SmartFirstPass
    \/ SmartSecondPass

SmartSpec == Init /\ [][SmartNext]_vars

\* the first pass of the smartCrawl call failed: the crawl threw or gave a
\* result without success
FirstPassFailed == smart.initialCrawl.kind = "thrown" \/ ~smart.initialCrawl.success

\* C30: a smartCrawl call that has ended crawled the url with the automatic
\* strategy first; when that pass failed it made no second crawl and returned
\* the failed result; otherwise it made exactly one more crawl of the same url
\* with the strategy of the classified type and returned that crawl's result,
\* tagged with the classified type.
C30_TwoPassProtocol ==
    smart.pc \in {"done", "thrown"} =>
       /\ smart.crawls[1] = <<smart.url, "auto">>
       /\ FirstPassFailed =>
             /\ Len(smart.crawls) = 1
             /\ smart.pc = "done"
             /\ smart.res = smart.initialCrawl
             /\ smart.res.kind = "returned"
       /\ ~FirstPassFailed =>
             /\ Len(smart.crawls) = 2
             /\ smart.pc = "done"
             /\ smart.crawls[2] =
                   <<smart.url,
                     getTargetedExtractionOptions(
                        identifyUSPTOContent(smart.initialCrawl.title,
                                             smart.initialCrawl.content)).extractionStrategy>>
             /\ smart.res = crawlCall.res
             /\ smart.contentType = identifyUSPTOContent(smart.initialCrawl.title,
                                                         smart.initialCrawl.content)
             /\ smart.twoPassExtraction

-----------------------------------------------------------------------------
(* SeleniumUSPTOService.searchPatents step by step: the site search of
   searchPatentsPublic, then that of searchGooglePatents when the first gave
   no record *)

SiteQueries == {QEmpty, QAi}

\* the other variables of the service calls
siteRest == <<callVars, genVars, concVars, idxVars, dedup, classify, cmVars,
              detail, crawlVars, conc, tool, stream>>

\* one more entry in the log of the site search in flight
Logged(s, event) == [s EXCEPT !.log = Append(@, <<event, s.target>>)]

\* a site search begins: `if (!this.driver) await this.initialize()`, else the
\* try block is entered and driver.get is issued
BeginSite(s, drv, target) ==
    LET t == [s EXCEPT !.target = target, !.typed = <<>>, !.elements = <<>>]
    IN  IF drv = "null"
        THEN Logged([t EXCEPT !.pc = "initializing"], "initialize")
        ELSE Logged([t EXCEPT !.pc = "navigating"], "get")

\* a site search returns `results`: searchPatents goes on with the second
\* site after an empty first list, returns getMockResults after an empty
\* second one, and returns the list otherwise
EndSite(s, how, results) ==
    LET t == [s EXCEPT !.ends[s.target] = how, !.lists[s.target] = results]
    IN  IF Len(results) > 0
        THEN [t EXCEPT !.pc = "done", !.ret = Returned(results)]
        ELSE IF s.target = "public"
        THEN BeginSite(t, "open", "google")
        ELSE [t EXCEPT !.pc = "done",
                       !.ret = Returned(getMockResults(s.query, s.limit))]

\* a plausible slip: the wait for the results container is not inside the
\* try block that guards the extraction
AfterWaitAlways(kind) == "extracting"

\* driver.wait(until.elementLocated(results container), 10000) resolves and
\* the extraction follows, or it throws and the catch block is entered
AfterWait(kind) == IF kind = "elements" THEN "extracting" ELSE "caught"

\* entry of SeleniumUSPTOService.searchPatents
SeleniumSearchPatents(q, n) ==
    /\ site.pc = "idle"
    /\ site' = BeginSite([site EXCEPT !.query = q, !.limit = n], driver, "public")
    /\ UNCHANGED <<driver, siteRest>>

\* initialize(): the browser session is built, or the failure is rethrown and
\* leaves searchPatents
SiteBuilt(ok) ==
    /\ site.pc = "initializing"
    /\ IF ok
       THEN /\ driver' = "open"
            /\ site' = Logged([Logged(site, "built") EXCEPT !.pc = "navigating"], "get")
       ELSE /\ driver' = driver
            /\ site' = [site EXCEPT !.pc = "done", !.ends[site.target] = "error",
                                    !.ret = Thrown]
    /\ UNCHANGED siteRest

\* driver.get, the wait for the search input and findElement (and clear() on
\* the second site) have run
SiteLoaded(ok) ==
    /\ site.pc = "navigating"
    /\ site' = IF ok THEN [site EXCEPT !.pc = "typing"]
               ELSE EndSite(site, "error", <<>>)
    /\ UNCHANGED <<driver, siteRest>>

\* for (const char of query) await searchInput.sendKeys(char)
SiteKey(ok) ==
    /\ site.pc = "typing"
    /\ Len(site.typed) < Len(site.query)
    /\ site' = IF ok
               THEN Logged([site EXCEPT !.typed = Append(@, site.query[Len(site.typed) + 1])],
                           "type")
               ELSE EndSite(site, "error", <<>>)
    /\ UNCHANGED <<driver, siteRest>>

\* await searchInput.sendKeys(Key.ENTER)
SiteSubmit(ok) ==
    /\ site.pc = "typing"
    /\ Len(site.typed) = Len(site.query)
    /\ site' = IF ok THEN Logged([site EXCEPT !.pc = "waiting"], "submit")
               ELSE EndSite(site, "error", <<>>)
    /\ UNCHANGED <<driver, siteRest>>

\* the wait for the results container ends: found, and findElements gives the
\* page's elements, or timed out (navError stands for any other exception),
\* and the inner catch block leaves results empty
SiteWaited(page) ==
    /\ site.pc = "waiting"
    /\ site' = IF AfterWait(page.kind) = "extracting"
               THEN Logged([Logged(site, page.kind) EXCEPT
                               !.pc = "extracting", !.elements = page.elements],
                           "extract")
               ELSE EndSite(Logged(site, page.kind), "error", <<>>)
    /\ UNCHANGED <<driver, siteRest>>

\* the loop over the result elements has run
SiteExtracted ==
    /\ site.pc = "extracting"
    /\ LET page == [kind |-> "elements", elements |-> site.elements]
           results == IF site.target = "public"
                      THEN searchPatentsPublic(page, site.limit)
                      ELSE searchGooglePatents(page, site.limit)
       IN  site' = EndSite(site, IF Len(results) > 0 THEN "success" ELSE "empty", results)
    /\ UNCHANGED <<driver, siteRest>>

SiteNext ==
    \/ \E q \in SiteQueries, n \in Limits : SeleniumSearchPatents(q, n)
    \/ \E ok \in BOOLEAN : SiteBuilt(ok)
    \/ \E ok \in BOOLEAN : SiteLoaded(ok)
    \/ \E ok \in BOOLEAN : SiteKey(ok)
    \/ \E ok \in BOOLEAN : SiteSubmit(ok)
    \/ \E page \in Pages : SiteWaited(page)
    \/ SiteExtracted

SiteSpec == Init /\ [][SiteNext]_vars

\* the place of a logged step in the order Uninitialized, Initializing, Ready,
\* Navigating (get, type, submit), WaitingForResults, Extracting
StageRank(event) ==
    CASE event = "initialize" -> 1
      [] event = "built" -> 2
      [] event = "get" -> 3
      [] event = "type" -> 4
      [] event = "submit" -> 5
      [] event \in {"elements", "timeout", "navError"} -> 6
      [] event = "extract" -> 7

\* the positions of the log that belong to the search of site t
LogOf(t) == {p \in 1..Len(site.log) : site.log[p][2] = t}

\* C31: a site search only moves forward through its stages and ends in
\* success, empty or error: no step is logged after a later one, the page is
\* navigated to only while a session exists, the query is typed in full before
\* it is submitted, and result elements are extracted only right after the
\* results container was found.
C31_ForwardOnly ==
    /\ \A t \in {"public", "google"} :
          /\ \A p \in LogOf(t), q \in LogOf(t) :
                p < q =>
                   \/ StageRank(site.log[p][1]) < StageRank(site.log[q][1])
                   \/ site.log[p][1] = "type" /\ site.log[q][1] = "type"
          /\ \A p \in LogOf(t) :
                /\ site.log[p][1] = "get" => driver = "open"
                /\ site.log[p][1] = "submit" =>
                      Cardinality({q \in LogOf(t) : q < p /\ site.log[q][1] = "type"})
                         = Len(site.query)
                /\ site.log[p][1] = "extract" =>
                      p > 1 /\ site.log[p - 1] = <<"elements", t>>
          /\ site.ends[t] \in {"none", "success", "empty", "error"}
          /\ site.ends[t] \in {"success", "empty"} =>
                \E p \in LogOf(t) : site.log[p][1] = "extract"
          /\ site.ends[t] = "success" <=> Len(site.lists[t]) > 0
    /\ site.pc \in {"navigating", "typing", "waiting", "extracting"} => driver = "open"
    /\ site.pc = "typing" => IsPrefix(site.typed, site.query)
    /\ site.pc = "done" => site.ends[site.target] # "none"

\* C31 witness: the first site's results container was not found in time, the
\* second site was searched from typing the query to extraction and gave
\* records
C31_Witness ==
    /\ site.pc = "done"
    /\ site.query = QAi
    /\ site.ends["public"] = "error"
    /\ site.ends["google"] = "success"
    /\ site.log = <<<<"initialize", "public">>, <<"built", "public">>, <<"get", "public">>,
                    <<"type", "public">>, <<"type", "public">>, <<"submit", "public">>,
                    <<"timeout", "public">>,
                    <<"get", "google">>, <<"type", "google">>, <<"type", "google">>,
                    <<"submit", "google">>, <<"elements", "google">>,
                    <<"extract", "google">>>>

\* a site search of the call has run its extraction loop and the call is over
Extracted == site.pc = "done" /\ site.ends[site.target] \in {"success", "empty"}

\* getText() of the field gave a text that is not empty
NonEmptyText(t) == t # Undefined /\ t # <<>>

\* the positions of the page's result elements the loop examines
ExaminedPositions ==
    {i \in 1..Len(site.elements) : i <= site.limit}

\* the examined elements a record is kept for
KeptPositions ==
    {i \in ExaminedPositions :
        NonEmptyText(site.elements[i].number) \/ NonEmptyText(site.elements[i].title)}

\* C32: the list a site search extracts has one record for each of the first
\* min(number of elements, limit) result elements whose number or title text
\* is non-empty, and for no other element, in page order; each record carries
\* the number and the title of its element, whichever of the two (or of the
\* elements before it) could not be extracted.
C32_DefensiveExtraction ==
    Extracted =>
       LET list == site.lists[site.target] IN
       /\ Len(list) = Cardinality(KeptPositions)
       /\ \A i \in KeptPositions :
             LET k == Cardinality({j \in KeptPositions : j <= i}) IN
             /\ list[k].patentNumber = site.elements[i].number
             /\ list[k].title = site.elements[i].title

\* C32 witness: of two result elements the first has an empty number and no
\* title and is dropped, the second has a number and no title and is kept
C32_Witness ==
    /\ Extracted
    /\ site.limit = 2
    /\ site.elements = <<[number |-> <<>>, title |-> Undefined],
                         [number |-> Lit("US1"), title |-> Undefined]>>
    /\ Len(site.lists[site.target]) = 1
    /\ site.lists[site.target][1].patentNumber = Lit("US1")

\* the second site has been attempted: searchGooglePatents was called
SecondaryAttempted == LogOf("google") # {}

\* C33: inside the browser adapter the second site is attempted if and only
\* if the first site yielded zero records: never before the first site search
\* has ended, never after it gave records, and always once it is over
\* without a record.
C33_SecondaryIffPrimaryEmpty ==
    /\ SecondaryAttempted =>
          /\ site.ends["public"] # "none"
          /\ Len(site.lists["public"]) = 0
          /\ \A p \in LogOf("public"), q \in LogOf("google") : p < q
    /\ Len(site.lists["public"]) > 0 => ~SecondaryAttempted
    /\ (site.ends["public"] # "none" /\ Len(site.lists["public"]) = 0) =>
          SecondaryAttempted

-----------------------------------------------------------------------------
(* The browser session after cleanup *)

\* C34: when cleanup() of the browser service has returned, the service holds
\* no browser session: its driver field is null, whether closing the browser
\* succeeded or not.
C34_NoSessionAfterCleanup ==
    (op = "cleanup" /\ pc = "done") => driver = "null"

-----------------------------------------------------------------------------
(* Lazy initialization of the browser session under concurrent searches *)

\* C35: at most one browser session is built per service at a time: no
\* session exists that the service's driver field does not reference, so none
\* is orphaned.
C35_NoOrphanSession ==
    \A s \in live : s = held

-----------------------------------------------------------------------------
(* Crawl4AIService.crawl called several times at once, as the
   batch.map(url => this.crawl(url)) of crawlMultiple does *)

concRest == <<svcVars, genVars, concVars, idxVars, dedup, classify, cmVars,
              detail, crawlCall, smart, site, tool, stream>>

\* a crawl call runs to its first await: `if (!this.isInitialized)` starts
\* initialize(), else the crawl's process is spawned
EnterCrawl(init) == IF init THEN "exec" ELSE "initializing"

\* the calls cs are made in one synchronous stretch (one call, or the calls
\* of a batch): each runs to its first await before anything settles
ConcCrawl(cs) ==
    /\ cs # {}
    /\ \A c \in cs : conc.pc[c] = "idle"
    /\ conc' = [pc |-> [c \in 1..MaxConc |->
                           IF c \in cs THEN EnterCrawl(isInitialized) ELSE conc.pc[c]],
                inits |-> conc.inits + (IF isInitialized THEN 0 ELSE Cardinality(cs))]
    /\ UNCHANGED <<isInitialized, concRest>>

\* the initialize() a call is waiting for settles: isInitialized = true and
\* the call goes on to spawn its process, or the failure is rethrown
ConcInitialized(c, ok) ==
    /\ conc.pc[c] = "initializing"
    /\ isInitialized' = (ok \/ isInitialized)
    /\ conc' = [conc EXCEPT !.pc[c] = IF ok THEN "exec" ELSE "thrown"]
    /\ UNCHANGED concRest

\* the crawl's process ends and the call returns its result
ConcSettles(c) ==
    /\ conc.pc[c] = "exec"
    /\ conc' = [conc EXCEPT !.pc[c] = "done"]
    /\ UNCHANGED <<isInitialized, concRest>>

RaceNext ==
    \/ \E cs \in SUBSET (1..MaxConc) : ConcCrawl(cs)
    \/ \E c \in 1..MaxConc, ok \in BOOLEAN : ConcInitialized(c, ok)
    \/ \E c \in 1..MaxConc : ConcSettles(c)

RaceSpec == Init /\ [][RaceNext]_vars

\* C36: the service is initialized at most once: no two initialize() runs are
\* under way at the same time, none is started once one has succeeded, and a
\* crawl's process is spawned only on an initialized service.
C36_InitializedOnce ==
    /\ Cardinality({c \in 1..MaxConc : conc.pc[c] = "initializing"}) <= 1
    /\ isInitialized => conc.inits <= 1 + Cardinality({c \in 1..MaxConc : conc.pc[c] = "thrown"})
    /\ \A c \in 1..MaxConc : conc.pc[c] = "exec" => isInitialized

-----------------------------------------------------------------------------
(* What crawlMultiple returns *)

\* C37: a crawlMultiple call that has ended returned one result per url, each
\* url crawled once; a crawl that failed is a result at its position and
\* never makes the call itself fail.
C37_OneResultPerUrl ==
    cmPc \in {"done", "thrown"} =>
       /\ cmPc = "done"
       /\ \A u \in 1..cmUrls : cmCrawl[u] = "result"

-----------------------------------------------------------------------------
(* What the detail fetch returns *)

\* C38: a detail fetch that has returned gives one record per input record,
\* in input order: the k-th record returned is the k-th record of the input,
\* enriched or not.
C38_NoRecordLost ==
    detail.pc = "done" =>
       /\ Len(detail.detailed) = Len(detail.items)
       /\ \A k \in 1..Len(detail.detailed) : detail.detailed[k][1] = k

-----------------------------------------------------------------------------
(* The assistant-facing search tools: PatentSearchTool.execute and
   TrademarkSearchTool.execute over USPTOCrawler.searchPatents and
   searchTrademarks *)

toolRest == <<svcVars, genVars, concVars, idxVars, dedup, classify, cmVars,
              detail, crawlVars, site, conc, stream>>

\* the arguments a tool is called with
ToolArgs ==
    {NoArgs,
     [given |-> TRUE, query |-> Undefined, owner |-> Undefined],
     [given |-> TRUE, query |-> QAi, owner |-> Undefined],
     [given |-> TRUE, query |-> QAi, owner |-> Lit("Tech Corp")]}

\* how the crawler's search ends: the search crawl raises (initialize()
\* failed), reports success = false (the crawler throws), or succeeds and the
\* parsed records `items` go through the detail fetch
SearchOutcomes ==
    {[kind |-> k, items |-> <<>>] : k \in {"raises", "failed"}}
    \cup {[kind |-> "list", items |-> items] : items \in DetailItems}

RECURSIVE Detailed(_, _)
\* the list fetchPatentDetails / fetchTrademarkDetails returns for the parsed
\* records from position j on: the positions of the records it fetched
Detailed(items, j) ==
    IF j > Len(items) THEN <<>>
    ELSE IF items[j] THEN <<j>> \o Detailed(items, j + 1)
    ELSE Detailed(items, j + 1)

\* a plausible slip: the catch block rethrows
ToolFailureRethrow(args) ==
    [thrown |-> TRUE, success |-> FALSE, results |-> <<>>, count |-> 0, query |-> args]

\* the catch block of execute
ToolFailure(args) ==
    [thrown |-> FALSE, success |-> FALSE, results |-> <<>>, count |-> 0, query |-> args]

\* the return of the try block of execute
ToolSuccess(args, results) ==
    [thrown |-> FALSE, success |-> TRUE, results |-> results, count |-> Len(results),
     query |-> args]

\* execute up to its await: the crawler's search is called; building the
\* trademark parameters reads args.owner, a TypeError without arguments
ToolExecute(kind, args) ==
    /\ tool.pc = "idle"
    /\ tool' = IF kind = "trademark" /\ ~args.given
               THEN [tool EXCEPT !.pc = "done", !.kind = kind, !.args = args,
                                 !.search = "typeerror", !.ret = ToolFailure(args)]
               ELSE [tool EXCEPT !.pc = "searching", !.kind = kind, !.args = args]
    /\ UNCHANGED toolRest

\* the crawler's search settles and execute returns
ToolSearchSettles(o) ==
    /\ tool.pc = "searching"
    /\ tool' = [tool EXCEPT
                   !.pc = "done",
                   !.search = o.kind,
                   !.ret = IF o.kind = "list"
                           THEN ToolSuccess(tool.args, Detailed(o.items, 1))
                           ELSE ToolFailure(tool.args)]
    /\ UNCHANGED toolRest

ToolNext ==
    \/ \E kind \in {"patent", "trademark"}, args \in ToolArgs : ToolExecute(kind, args)
    \/ \E o \in SearchOutcomes : ToolSearchSettles(o)

ToolSpec == Init /\ [][ToolNext]_vars

\* C39: a tool call that has ended has returned, never thrown: with
\* success = false, no results and count 0 when the crawler's search failed,
\* and always with count = results.length and query = the arguments given.
C39_ToolsNeverThrow ==
    tool.pc = "done" =>
       /\ ~tool.ret.thrown
       /\ tool.search \in {"raises", "failed", "typeerror"} =>
             /\ tool.ret.success = FALSE
             /\ tool.ret.results = <<>>
             /\ tool.ret.count = 0
       /\ tool.search = "list" => tool.ret.success
       /\ tool.ret.count = Len(tool.ret.results)
       /\ tool.ret.query = tool.args

\* C39 witness: the search crawl of a patent search reported success = false
\* and the tool returned the failure value for the arguments it was given
C39_Witness ==
    /\ tool.pc = "done"
    /\ tool.kind = "patent"
    /\ tool.search = "failed"
    /\ tool.args.query = QAi
    /\ tool.ret = [thrown |-> FALSE, success |-> FALSE, results |-> <<>>, count |-> 0,
                   query |-> tool.args]

-----------------------------------------------------------------------------
(* USPTOBackendServer: search:stream requests on a WebSocket and the events
   emitted for each *)

streamRest == <<svcVars, genVars, concVars, idxVars, dedup, classify, cmVars,
                detail, crawlVars, site, conc, tool>>

\* the data of a search:stream message: nothing, or an object with a type
StreamData == {"undefined", "patent", "trademark"}

Progress(status, progress) ==
    [event |-> "search:progress", status |-> status, progress |-> progress]

Terminal(event) == [event |-> event, status |-> "", progress |-> 0]

\* emitted before the search: 'starting' by the handler and 'searching' by
\* crawlerWithProgress
StreamStarted == <<Progress("starting", 0), Progress("searching", 25)>>

\* a plausible slip: the handler emits search:complete when the search has
\* resolved, and the progress callback runs after it
StreamDoneLate == <<Terminal("search:complete"), Progress("processing", 75)>>

\* emitted after the search: 'processing' by crawlerWithProgress, then
\* search:complete by the handler
StreamDone == <<Progress("processing", 75), Terminal("search:complete")>>

\* the handler runs to its first await: destructuring the data throws when
\* there is none, and the catch block emits search:error
SearchStream(r, data) ==
    /\ stream.pc[r] = "idle"
    /\ stream' = IF data = "undefined"
                 THEN [stream EXCEPT !.pc[r] = "done",
                                     !.events[r] = StreamStarted \o <<Terminal("search:error")>>]
                 ELSE [stream EXCEPT !.pc[r] = data, !.events[r] = StreamStarted]
    /\ UNCHANGED streamRest

\* the search of the request resolves (searchPatents and searchTrademarks
\* return a list on every path)
StreamSearched(r) ==
    /\ stream.pc[r] \in {"patent", "trademark"}
    /\ stream' = [stream EXCEPT !.pc[r] = "done", !.events[r] = @ \o StreamDone]
    /\ UNCHANGED streamRest

StreamNext ==
    \/ \E r \in 1..MaxStreams, data \in StreamData : SearchStream(r, data)
    \/ \E r \in 1..MaxStreams : StreamSearched(r)

StreamSpec == Init /\ [][StreamNext]_vars

\* the positions of the terminal events among the events of request r
Terminals(r) ==
    {p \in 1..Len(stream.events[r]) :
        stream.events[r][p].event \in {"search:complete", "search:error"}}

\* C40: the events of a search:stream request are progress events with
\* non-decreasing progress out of (starting 0, searching 25, processing 75),
\* followed by exactly one terminal event, search:complete or search:error;
\* nothing is emitted for the request after its terminal event.
C40_ProgressThenOneTerminal ==
    \A r \in 1..MaxStreams :
       LET e == stream.events[r] IN
       /\ \A p \in 1..Len(e) :
             \/ p \in Terminals(r)
             \/ /\ e[p].event = "search:progress"
                /\ <<e[p].status, e[p].progress>> \in
                      {<<"starting", 0>>, <<"searching", 25>>, <<"processing", 75>>}
       /\ \A p \in 1..Len(e), q \in 1..Len(e) :
             (p < q /\ p \notin Terminals(r) /\ q \notin Terminals(r)) =>
                e[p].progress <= e[q].progress
       /\ Cardinality(Terminals(r)) <= 1
       /\ \A p \in Terminals(r) : p = Len(e)
       /\ stream.pc[r] = "done" => Cardinality(Terminals(r)) = 1
       /\ stream.pc[r] # "done" => Terminals(r) = {}

\* C40 witness: one request has completed after its three progress events,
\* another has ended with search:error after two
C40_Witness ==
    \E r1 \in 1..MaxStreams, r2 \in 1..MaxStreams :
       /\ stream.events[r1] = <<Progress("starting", 0), Progress("searching", 25),
                                Progress("processing", 75), Terminal("search:complete")>>
       /\ stream.events[r2] = <<Progress("starting", 0), Progress("searching", 25),
                                Terminal("search:error")>>
============================================================================
